---- MODULE Spec2Model ----
(***************************************************************************)
(* SharkDB storage stack: the order-preserving key codec                   *)
(* (storage/keycode.rs), the ordered key/value engine (storage/engine.rs,  *)
(* storage/memory.rs) and the MVCC transaction layer (storage/mvcc.rs).    *)
(*                                                                         *)
(* Keys and values are byte strings, modelled as sequences over 0..255.    *)
(* The engine is the BTreeMap of the memory engine: a function from        *)
(* encoded keys to values, scanned in lexicographic key order.             *)
(***************************************************************************)
EXTENDS Integers, Sequences, FiniteSets, TLC

(***************************************************************************)
(* Bounds of the model.                                                    *)
(***************************************************************************)
\* number of transactions begun in one run
MaxTxn == 3

\* number of calls made in one run
MaxOps == 5

\* user keys written and read by the transactions: one key is a byte
\* prefix of the other, and one holds a 0x00 byte, which the codec escapes
UserKeys == {<<97>>, <<97, 0>>}

\* user values
UserValues == {<<7>>}

\* prefixes handed to scan_prefix: a prefix of both keys, and a prefix
\* whose last byte is 0x00
UserPrefixes == {<<97>>, <<97, 0>>}

(***************************************************************************)
(* Byte strings and their order (Vec<u8> is ordered lexicographically).    *)
(***************************************************************************)
RECURSIVE LexLessFrom(_, _, _)
\* the comparison of a and b from position i on, equal before it
LexLessFrom(a, b, i) ==
    IF i > Len(a) THEN i <= Len(b)
    ELSE IF i > Len(b) THEN FALSE
    ELSE IF a[i] = b[i] THEN LexLessFrom(a, b, i + 1)
    ELSE a[i] < b[i]

LexLess(a, b) == LexLessFrom(a, b, 1)

LexLeq(a, b) == a = b \/ LexLess(a, b)

IsPrefix(p, k) == Len(p) <= Len(k) /\ \A i \in 1..Len(p) : p[i] = k[i]

\* Option<T>: None is the empty sequence, Some(x) the one-element sequence
None == <<>>
Some(x) == <<x>>

(***************************************************************************)
(* Key codec, storage/keycode.rs.                                          *)
(***************************************************************************)
RECURSIVE to_be_bytes(_, _)
\* u64::to_be_bytes, most significant byte first, n bytes wide
to_be_bytes(v, n) ==
    IF n = 0 THEN <<>> ELSE Append(to_be_bytes(v \div 256, n - 1), v % 256)

RECURSIVE from_be_bytes(_)
\* u64::from_be_bytes
from_be_bytes(bytes) ==
    IF bytes = <<>> THEN 0
    ELSE from_be_bytes(SubSeq(bytes, 1, Len(bytes) - 1)) * 256 + bytes[Len(bytes)]

\* u64::MAX, every bit set.  The value is beyond the integers of the model
\* checker and is kept symbolic: serialize_u64 writes its eight 0xFF bytes.
U64_MAX == -1

\* the eight bytes with the two least significant ones exchanged
serialize_u64_swapped(v) ==
    LET bytes == to_be_bytes(v, 8)
    IN  [i \in 1..8 |-> IF i = 7 THEN bytes[8] ELSE IF i = 8 THEN bytes[7] ELSE bytes[i]]

\* Serializer::serialize_u64
serialize_u64(v) ==
    IF v = U64_MAX THEN <<255, 255, 255, 255, 255, 255, 255, 255>>
    ELSE to_be_bytes(v, 8)

RECURSIVE escape_bytes(_)
\* the loop of Serializer::serialize_bytes: 0x00 becomes 0x00 0xFF
escape_bytes(v) ==
    IF v = <<>> THEN <<>>
    ELSE (IF v[1] = 0 THEN <<0, 255>> ELSE <<v[1]>>) \o escape_bytes(Tail(v))

\* the bytes as they are, and the end mark
serialize_bytes_unescaped(v) == v \o <<0, 0>>

\* Serializer::serialize_bytes: the escaped bytes and the 0x00 0x00 end mark
serialize_bytes(v) == escape_bytes(v) \o <<0, 0>>

\* MvccKey values
NextVersionKey == [variant |-> "NextVersion"]
TxnActiveKey(v) == [variant |-> "TxnActive", version |-> v]
TxnWriteKey(v, k) == [variant |-> "TxnWrite", version |-> v, key |-> k]
VersionKey(k, v) == [variant |-> "Version", key |-> k, version |-> v]

\* MvccKey::encode: the variant index, then the fields in declared order
encode(key) ==
    CASE key.variant = "NextVersion" -> <<0>>
      [] key.variant = "TxnActive" -> <<1>> \o serialize_u64(key.version)
      [] key.variant = "TxnWrite" ->
            <<2>> \o serialize_u64(key.version) \o serialize_bytes(key.key)
      [] key.variant = "Version" ->
            <<3>> \o serialize_bytes(key.key) \o serialize_u64(key.version)

\* MvccKeyPrefix values
TxnActivePrefix == [variant |-> "TxnActive"]
TxnWritePrefix(v) == [variant |-> "TxnWrite", version |-> v]
VersionPrefix(k) == [variant |-> "Version", key |-> k]

\* MvccKeyPrefix::encode
encode_prefix(prefix) ==
    CASE prefix.variant = "NextVersion" -> <<0>>
      [] prefix.variant = "TxnActive" -> <<1>>
      [] prefix.variant = "TxnWrite" -> <<2>> \o serialize_u64(prefix.version)
      [] prefix.variant = "Version" -> <<3>> \o serialize_bytes(prefix.key)

\* results of the deserializer: a decoded value with the rest of the input,
\* a decode error, or a panic (a slice index out of range)
DecodeErr == [variant |-> "Err"]
DecodePanic == [variant |-> "Panic"]

RECURSIVE next_bytes_from(_, _, _)
\* the loop of Deserializer::next_bytes from position i, res decoded so far
next_bytes_from(input, i, res) ==
    IF i > Len(input) THEN [ok |-> FALSE]
    ELSE IF input[i] = 0
         THEN IF i + 1 > Len(input) THEN [ok |-> FALSE]
              ELSE IF input[i + 1] = 0
                   THEN [ok |-> TRUE, bytes |-> res,
                         rest |-> SubSeq(input, i + 2, Len(input))]
                   ELSE IF input[i + 1] = 255
                        THEN next_bytes_from(input, i + 2, Append(res, 0))
                        ELSE [ok |-> FALSE]
         ELSE next_bytes_from(input, i + 1, Append(res, input[i]))

\* next_bytes that takes an input it cannot parse as the field itself
next_bytes_lenient(input) ==
    IF next_bytes_from(input, 1, <<>>).ok THEN next_bytes_from(input, 1, <<>>)
    ELSE [ok |-> TRUE, bytes |-> input, rest |-> <<>>]

\* Deserializer::next_bytes
next_bytes(input) == next_bytes_from(input, 1, <<>>)

\* Deserializer::deserialize_u64 of the eight bytes taken
deserialize_u64(bytes) ==
    IF bytes = <<255, 255, 255, 255, 255, 255, 255, 255>> THEN U64_MAX
    ELSE from_be_bytes(bytes)

\* MvccKey::decode = deserialize_key: variant index by take_bytes(1), then
\* the fields; bytes left over after the last field are ignored
decode(data) ==
    IF Len(data) < 1 THEN DecodePanic
    ELSE LET tag == data[1]
             body == Tail(data)
         IN CASE tag = 0 -> NextVersionKey
              [] tag = 1 ->
                    IF Len(body) < 8 THEN DecodePanic
                    ELSE TxnActiveKey(deserialize_u64(SubSeq(body, 1, 8)))
              [] tag = 2 ->
                    IF Len(body) < 8 THEN DecodePanic
                    ELSE LET nb == next_bytes(SubSeq(body, 9, Len(body)))
                         IN IF nb.ok
                            THEN TxnWriteKey(deserialize_u64(SubSeq(body, 1, 8)), nb.bytes)
                            ELSE DecodeErr
              [] tag = 3 ->
                    LET nb == next_bytes(body)
                    IN IF ~nb.ok THEN DecodeErr
                       ELSE IF Len(nb.rest) < 8 THEN DecodePanic
                       ELSE VersionKey(nb.bytes, deserialize_u64(SubSeq(nb.rest, 1, 8)))
              [] OTHER -> DecodeErr

(***************************************************************************)
(* bincode encodings of the stored values (mvcc.rs:113,119,204,268).       *)
(***************************************************************************)
RECURSIVE to_le_bytes(_, _)
\* u64 little-endian fixed width, as bincode writes integers and lengths
to_le_bytes(v, n) ==
    IF n = 0 THEN <<>> ELSE <<v % 256>> \o to_le_bytes(v \div 256, n - 1)

RECURSIVE from_le_bytes(_)
from_le_bytes(bytes) ==
    IF bytes = <<>> THEN 0 ELSE bytes[1] + 256 * from_le_bytes(Tail(bytes))

\* bincode::serialize(&u64)
bincode_serialize_u64(v) == to_le_bytes(v, 8)

\* bincode::deserialize::<u64>
bincode_deserialize_u64(bytes) == from_le_bytes(SubSeq(bytes, 1, 8))

\* bincode::serialize(&Option<Vec<u8>>): tag 0, or tag 1, length and bytes
bincode_serialize_option(value) ==
    IF value = None THEN <<0>>
    ELSE <<1>> \o to_le_bytes(Len(value[1]), 8) \o value[1]

\* bincode::deserialize::<Option<Vec<u8>>>
bincode_deserialize_option(bytes) ==
    IF bytes[1] = 0 THEN None
    ELSE Some(SubSeq(bytes, 10, 9 + from_le_bytes(SubSeq(bytes, 2, 9))))

(***************************************************************************)
(* Engine: storage/engine.rs and storage/memory.rs.  The map is a function *)
(* from keys to values; a scan yields <<key, value>> pairs in ascending    *)
(* key order.                                                              *)
(***************************************************************************)
\* MemoryEngine::new
EmptyEngine == [x \in {} |-> <<>>]

\* MemoryEngine::set
Engine_set(data, key, value) ==
    [x \in DOMAIN data \cup {key} |-> IF x = key THEN value ELSE data[x]]

\* MemoryEngine::get
Engine_get(data, key) ==
    IF key \in DOMAIN data THEN Some(data[key]) ELSE None

\* MemoryEngine::delete
Engine_delete(data, key) == [x \in DOMAIN data \ {key} |-> data[x]]

RECURSIVE delete_all(_, _)
\* the loops `for key in delete_keys { engine.delete(key)? }`
delete_all(data, keys) ==
    IF keys = <<>> THEN data
    ELSE delete_all(Engine_delete(data, keys[1]), Tail(keys))

\* range bounds (std::ops::Bound)
Included(k) == [kind |-> "Included", key |-> k]
Excluded(k) == [kind |-> "Excluded", key |-> k]
Unbounded == [kind |-> "Unbounded", key |-> <<>>]

InRange(k, start, end) ==
    /\ CASE start.kind = "Included" -> LexLeq(start.key, k)
         [] start.kind = "Excluded" -> LexLess(start.key, k)
         [] start.kind = "Unbounded" -> TRUE
    /\ CASE end.kind = "Included" -> LexLeq(k, end.key)
         [] end.kind = "Excluded" -> LexLess(k, end.key)
         [] end.kind = "Unbounded" -> TRUE

RECURSIVE SortedKeys(_)
\* the keys of S in ascending lexicographic order, as the BTreeMap yields them
SortedKeys(S) ==
    IF S = {} THEN <<>>
    ELSE LET m == CHOOSE x \in S : \A y \in S : LexLeq(x, y)
         IN <<m>> \o SortedKeys(S \ {m})

\* a scan either panics or yields its items
ScanPanic == [panic |-> TRUE, items |-> <<>>]
ScanItems(items) == [panic |-> FALSE, items |-> items]

\* BTreeMap::range panics when the start of the range is greater than its
\* end, or equal to it with both bounds excluded
RangePanics(start, end) ==
    /\ start.kind # "Unbounded"
    /\ end.kind # "Unbounded"
    /\ \/ LexLess(end.key, start.key)
       \/ (start.key = end.key /\ start.kind = "Excluded" /\ end.kind = "Excluded")

\* MemoryEngine::scan = BTreeMap::range
Engine_scan(data, start, end) ==
    IF RangePanics(start, end)
    THEN ScanPanic
    ELSE LET keys == SortedKeys({k \in DOMAIN data : InRange(k, start, end)})
         IN ScanItems([i \in 1..Len(keys) |-> <<keys[i], data[keys[i]]>>])

\* the range of the prefix with its end included
Engine_scan_prefix_closed(data, prefix) ==
    IF prefix = <<>> THEN Engine_scan(data, Included(prefix), Included(prefix))
    ELSE IF prefix[Len(prefix)] = 255 THEN ScanPanic
    ELSE Engine_scan(data, Included(prefix),
                     Included([prefix EXCEPT ![Len(prefix)] = @ + 1]))

\* Engine::scan_prefix: [prefix, prefix with its last byte plus one); the
\* increment of a 0xFF byte overflows u8: a panic when overflow checks are
\* on, and a bound below the start (so a panic of the range) when it wraps
Engine_scan_prefix(data, prefix) ==
    IF prefix = <<>> THEN Engine_scan(data, Included(prefix), Excluded(prefix))
    ELSE IF prefix[Len(prefix)] = 255 THEN ScanPanic
    ELSE Engine_scan(data, Included(prefix),
                     Excluded([prefix EXCEPT ![Len(prefix)] = @ + 1]))

(***************************************************************************)
(* MVCC: storage/mvcc.rs.  An operation takes the engine map and the       *)
(* TransactionState of its handle and yields the new map and its result.   *)
(* A result is [tag, value]: tag "Ok", "WriteConflict", "Internal" (an     *)
(* Error::Internal) or "Panic"; value is the Ok payload, <<>> otherwise.   *)
(***************************************************************************)
Result(tag, value) == [tag |-> tag, value |-> value]

Outcome(data, result) == [data |-> data, result |-> result]

\* the `match MvccKey::decode(key)?` of the scan loops: "Ok" when every key
\* of items decodes to the expected variant, else the failure of the first
\* key that does not (a decode error and an unexpected variant are both an
\* Error::Internal)
decode_all(items, variant) ==
    IF \A i \in 1..Len(items) : decode(items[i][1]).variant = variant THEN "Ok"
    ELSE LET i == CHOOSE j \in 1..Len(items) :
                    /\ decode(items[j][1]).variant # variant
                    /\ \A h \in 1..(j - 1) : decode(items[h][1]).variant = variant
         IN IF decode(items[i][1]) = DecodePanic THEN "Panic" ELSE "Internal"

\* is_visible without the test of the active set
is_visible_ignoring_active(state, version) == version <= state.version

\* is_visible that hides the transaction's own version
is_visible_below_own(state, version) ==
    IF version \in state.active_versions THEN FALSE
    ELSE version < state.version

\* TransactionState::is_visible
is_visible(state, version) ==
    IF version \in state.active_versions THEN FALSE
    ELSE version <= state.version

\* scan_active that finds no active transaction
scan_active_none(data) == [tag |-> "Ok", versions |-> {}]

\* MvccTransaction::scan_active: the versions of the TxnActive records
scan_active(data) ==
    LET scan == Engine_scan_prefix(data, encode_prefix(TxnActivePrefix))
        items == scan.items
    IN IF scan.panic THEN [tag |-> "Panic", versions |-> {}]
       ELSE IF decode_all(items, "TxnActive") # "Ok"
            THEN [tag |-> decode_all(items, "TxnActive"), versions |-> {}]
            ELSE [tag |-> "Ok",
                  versions |-> {decode(items[i][1]).version : i \in 1..Len(items)}]

\* begin that stores the version it returns as the next version
begin_same_next(data) ==
    LET stored == Engine_get(data, encode(NextVersionKey))
        new_version == IF stored = None THEN 1
                       ELSE bincode_deserialize_u64(stored[1])
        data1 == Engine_set(data, encode(NextVersionKey),
                            bincode_serialize_u64(new_version))
        active == scan_active(data1)
    IN IF active.tag # "Ok" THEN Outcome(data1, Result(active.tag, <<>>))
       ELSE Outcome(Engine_set(data1, encode(TxnActiveKey(new_version)), <<>>),
                    Result("Ok", [version |-> new_version,
                                  active_versions |-> active.versions]))

\* begin that reads the active set after recording its own TxnActive marker
begin_self_active(data) ==
    LET stored == Engine_get(data, encode(NextVersionKey))
        new_version == IF stored = None THEN 1
                       ELSE bincode_deserialize_u64(stored[1])
        data1 == Engine_set(data, encode(NextVersionKey),
                            bincode_serialize_u64(new_version + 1))
        data2 == Engine_set(data1, encode(TxnActiveKey(new_version)), <<>>)
        active == scan_active(data2)
    IN Outcome(data2, Result(active.tag, [version |-> new_version,
                                          active_versions |-> active.versions]))

\* MvccTransaction::begin: the new engine map and the TransactionState
begin(data) ==
    LET stored == Engine_get(data, encode(NextVersionKey))
        new_version == IF stored = None THEN 1
                       ELSE bincode_deserialize_u64(stored[1])
        data1 == Engine_set(data, encode(NextVersionKey),
                            bincode_serialize_u64(new_version + 1))
        active == scan_active(data1)
    IN IF active.tag # "Ok" THEN Outcome(data1, Result(active.tag, <<>>))
       ELSE Outcome(Engine_set(data1, encode(TxnActiveKey(new_version)), <<>>),
                    Result("Ok", [version |-> new_version,
                                  active_versions |-> active.versions]))

\* commit that returns Ok and leaves the store as it is
commit_noop(data, state) == Outcome(data, Result("Ok", <<>>))

\* commit whose first engine.delete is the one of TxnActive: the n-th delete
\* after it fails
commit_interrupted_active_first(data, state, n) ==
    LET scan == Engine_scan_prefix(data, encode_prefix(TxnWritePrefix(state.version)))
    IN IF scan.panic THEN Outcome(data, Result("Panic", <<>>))
       ELSE Outcome(delete_all(Engine_delete(data, encode(TxnActiveKey(state.version))),
                               [i \in 1..n |-> scan.items[i][1]]),
                    Result("Err", <<>>))

\* MvccTransaction::commit stopped by an engine error: the first n
\* engine.delete calls of the loop succeed and the next delete (of a TxnWrite
\* key, or of TxnActive when n is the number of TxnWrite keys) returns Err,
\* which `?` returns to the caller
commit_interrupted(data, state, n) ==
    LET scan == Engine_scan_prefix(data, encode_prefix(TxnWritePrefix(state.version)))
    IN IF scan.panic THEN Outcome(data, Result("Panic", <<>>))
       ELSE Outcome(delete_all(data, [i \in 1..n |-> scan.items[i][1]]),
                    Result("Err", <<>>))

\* MvccTransaction::commit
commit(data, state) ==
    LET scan == Engine_scan_prefix(data, encode_prefix(TxnWritePrefix(state.version)))
        items == scan.items
    IN IF scan.panic THEN Outcome(data, Result("Panic", <<>>))
       ELSE LET delete_keys == [i \in 1..Len(items) |-> items[i][1]]
                data1 == delete_all(data, delete_keys)
            IN Outcome(Engine_delete(data1, encode(TxnActiveKey(state.version))),
                       Result("Ok", <<>>))

RECURSIVE rollback_keys(_, _)
\* the scan loop of MvccTransaction::rollback: for each TxnWrite record the
\* Version key of this transaction, then the TxnWrite key itself
rollback_keys(items, version) ==
    IF items = <<>> THEN <<>>
    ELSE <<encode(VersionKey(decode(items[1][1]).key, version)), items[1][1]>>
         \o rollback_keys(Tail(items), version)

\* rollback that removes the TxnWrite and TxnActive markers only
rollback_markers_only(data, state) == commit(data, state)

\* rollback that removes the Version records of the keys it wrote at every
\* version, not at its own alone
rollback_every_version(data, state) ==
    LET items == Engine_scan_prefix(data,
                     encode_prefix(TxnWritePrefix(state.version))).items
        written == {decode(items[i][1]).key : i \in 1..Len(items)}
        markers == {items[i][1] : i \in 1..Len(items)}
                      \cup {encode(TxnActiveKey(state.version))}
    IN Outcome([x \in {y \in DOMAIN data \ markers :
                          LET r == decode(y)
                          IN ~(r.variant = "Version" /\ r.key \in written)}
                   |-> data[x]],
               Result("Ok", <<>>))

\* MvccTransaction::rollback
rollback(data, state) ==
    LET scan == Engine_scan_prefix(data, encode_prefix(TxnWritePrefix(state.version)))
        items == scan.items
    IN IF scan.panic THEN Outcome(data, Result("Panic", <<>>))
       ELSE IF decode_all(items, "TxnWrite") # "Ok"
            THEN Outcome(data, Result(decode_all(items, "TxnWrite"), <<>>))
            ELSE LET data1 == delete_all(data, rollback_keys(items, state.version))
                 IN Outcome(Engine_delete(data1, encode(TxnActiveKey(state.version))),
                            Result("Ok", <<>>))

RECURSIVE get_rev(_, _, _)
\* the loop of MvccTransaction::get over the reversed scan, items[i] being
\* the next element: the index of the first visible version, 0 when the
\* scan ends without one
get_rev(items, i, state) ==
    IF i = 0 THEN [tag |-> "Ok", index |-> 0]
    ELSE LET k == decode(items[i][1])
         IN IF k = DecodePanic THEN [tag |-> "Panic", index |-> 0]
            ELSE IF k.variant # "Version" THEN [tag |-> "Internal", index |-> 0]
            ELSE IF is_visible(state, k.version) THEN [tag |-> "Ok", index |-> i]
            ELSE get_rev(items, i - 1, state)

\* MvccTransaction::get
get(data, state, key) ==
    LET from == encode(VersionKey(key, 0))
        to == encode(VersionKey(key, state.version))
        scan == Engine_scan(data, Included(from), Included(to))
        hit == get_rev(scan.items, Len(scan.items), state)
    IN IF scan.panic THEN Result("Panic", <<>>)
       ELSE IF hit.tag # "Ok" THEN Result(hit.tag, <<>>)
       ELSE IF hit.index = 0 THEN Result("Ok", None)
       ELSE Result("Ok", bincode_deserialize_option(scan.items[hit.index][2]))

\* write_lo without the active set: the scan starts above the own version
write_lo_above_own(state) == state.version + 1

\* the lower version of the conflict scan of write_inner: the least active
\* version, or version + 1 when no transaction was active at begin
write_lo(state) ==
    IF state.active_versions = {} THEN state.version + 1
    ELSE CHOOSE m \in state.active_versions :
            \A w \in state.active_versions : m <= w

\* write_inner without the conflict scan: every write is stored
write_inner_unchecked(data, state, key, value) ==
    Outcome(Engine_set(Engine_set(data,
                           encode(TxnWriteKey(state.version, key)), <<>>),
                       encode(VersionKey(key, state.version)),
                       bincode_serialize_option(value)),
            Result("Ok", <<>>))

\* write_inner with the TxnWrite marker stored before the conflict check
write_inner_marker_first(data, state, key, value) ==
    LET data1 == Engine_set(data, encode(TxnWriteKey(state.version, key)), <<>>)
        items == Engine_scan(data, Included(encode(VersionKey(key, write_lo(state)))),
                             Included(encode(VersionKey(key, U64_MAX)))).items
    IN IF items # <<>> /\ ~is_visible(state, decode(items[Len(items)][1]).version)
       THEN Outcome(data1, Result("WriteConflict", <<>>))
       ELSE Outcome(Engine_set(data1, encode(VersionKey(key, state.version)),
                               bincode_serialize_option(value)),
                    Result("Ok", <<>>))

\* MvccTransaction::write_inner; value is Some(bytes) for set, None for delete
write_inner(data, state, key, value) ==
    LET from == encode(VersionKey(key, write_lo(state)))
        to == encode(VersionKey(key, U64_MAX))
        scan == Engine_scan(data, Included(from), Included(to))
        items == scan.items
    IN IF scan.panic THEN Outcome(data, Result("Panic", <<>>))
       ELSE LET k == IF items = <<>> THEN DecodeErr
                     ELSE decode(items[Len(items)][1])
            IN IF items # <<>> /\ k = DecodePanic
               THEN Outcome(data, Result("Panic", <<>>))
               ELSE IF items # <<>> /\ k.variant # "Version"
               THEN Outcome(data, Result("Internal", <<>>))
               ELSE IF items # <<>> /\ ~is_visible(state, k.version)
               THEN Outcome(data, Result("WriteConflict", <<>>))
               ELSE LET data1 == Engine_set(data,
                                    encode(TxnWriteKey(state.version, key)), <<>>)
                    IN Outcome(Engine_set(data1,
                                    encode(VersionKey(key, state.version)),
                                    bincode_serialize_option(value)),
                               Result("Ok", <<>>))

\* MvccTransaction::set
set(data, state, key, value) == write_inner(data, state, key, Some(value))

\* MvccTransaction::delete
delete(data, state, key) == write_inner(data, state, key, None)

\* the encoded prefix with its terminator left in place
version_scan_prefix_whole(prefix) == encode_prefix(VersionPrefix(prefix))

\* MvccTransaction::scan_prefix: MvccKeyPrefix::Version(prefix).encode()
\* truncated by the two bytes of the terminator
version_scan_prefix(prefix) ==
    LET enc == encode_prefix(VersionPrefix(prefix))
    IN SubSeq(enc, 1, Len(enc) - 2)

RECURSIVE scan_fold(_, _, _, _)
\* the loop of MvccTransaction::scan_prefix: results is the BTreeMap built
\* so far, a function from user keys to values
scan_fold(items, i, state, results) ==
    IF i > Len(items) THEN results
    ELSE LET k == decode(items[i][1])
             value == bincode_deserialize_option(items[i][2])
         IN IF ~is_visible(state, k.version)
            THEN scan_fold(items, i + 1, state, results)
            ELSE IF value # None
            THEN scan_fold(items, i + 1, state,
                    [x \in DOMAIN results \cup {k.key} |->
                        IF x = k.key THEN value[1] ELSE results[x]])
            ELSE scan_fold(items, i + 1, state,
                    [x \in DOMAIN results \ {k.key} |-> results[x]])

\* MvccTransaction::scan_prefix: the ScanResult list in key order
scan_prefix(data, state, prefix) ==
    LET enc_prefix == version_scan_prefix(prefix)
        scan == Engine_scan_prefix(data, enc_prefix)
        items == scan.items
    IN IF scan.panic THEN Result("Panic", <<>>)
       ELSE IF decode_all(items, "Version") # "Ok"
            THEN Result(decode_all(items, "Version"), <<>>)
            ELSE LET results == scan_fold(items, 1, state, EmptyEngine)
                     keys == SortedKeys(DOMAIN results)
                 IN Result("Ok", [i \in 1..Len(keys) |-> <<keys[i], results[keys[i]]>>])

(***************************************************************************)
(* The state machine: one engine shared by the transaction handles that    *)
(* Mvcc::begin has returned.                                               *)
(***************************************************************************)
VARIABLES
    engine,     \* Mvcc.engine: the map of the engine behind the mutex
    txns,       \* the handles begun so far: txns[t] is the TransactionState
    status,     \* history: "Active" until the first commit ("Committed") or
                \* the first rollback ("RolledBack") of handle t
    hist,       \* history: hist[t][k].attempt is the result of the latest set
                \* or delete of key k by handle t ("none" before the first),
                \* hist[t][k].payload is <<>> until a write of k by t succeeds
                \* and then <<p>>, p the payload of the last one that did
    ended,      \* history: ended[t] is the set of handles that had committed
                \* or rolled back when handle t began
    last,       \* the latest call: operation, handle, arguments and result
    panicked,   \* a call has panicked; the run ends there
    ops,        \* the number of calls made so far
    paths,      \* file system: paths[p] is the file at path p, 0 for none
    files,      \* file system: files[f] is the content of file f and the
                \* holder of the exclusive lock on it
    disk,       \* disk[e] is the DiskEngine of process e: where its open,
                \* its compaction or its use stands, its Log and its keydir
    applied,    \* history: applied[f].mem is the memory engine that was
                \* given the set and delete calls made on file f,
                \* applied[f].pure is FALSE once a compaction wrote to f,
                \* applied[f].opens counts the engines opened on f
    dlast,      \* the latest step of a disk engine
    dcount,     \* the numbers of opens, writes and compactions so far
    probe,      \* the keys handed to the key codec, and what it returned
    mutex,      \* Mvcc.engine: the Mutex, 0 when free, else the thread that
                \* holds the guard, or Poisoned
    thread      \* thread[t]: the MVCC call thread t is in, how far the
                \* call has come, its arguments and its locals

mvccVars == <<engine, txns, status, hist, ended, last, panicked, ops>>
diskVars == <<paths, files, disk, applied, dlast, dcount>>
threadVars == <<mutex, thread>>
vars == <<engine, txns, status, hist, ended, last, panicked, ops,
          paths, files, disk, applied, dlast, dcount, probe, mutex, thread>>

Handles == 1..Len(txns)

\* the handles whose transaction is neither committed nor rolled back
Live == {t \in Handles : status[t] = "Active"}

Call(op, t, key, value, result) ==
    [op |-> op, txn |-> t, key |-> key, value |-> value, result |-> result]

NoHistory == [attempt |-> "none", payload |-> <<>>, writes |-> 0]

\* the paths of the log files: Sibling(p) is p with the extension "compact"
Paths == {"db.log", "db.compact"}
Sibling(p) == "db.compact"

\* the processes that open disk engines
Engines == {1, 2}

\* no lock on a file; the lock of the Log of engine e, its own or the new
\* one of its compaction
NoLock == [eng |-> 0, log |-> "none"]
LockOf(e, log) == [eng |-> e, log |-> log]

\* an engine that is not open: before DiskEngine::new and after drop
Closed == [pc |-> "closed", path |-> "", fd |-> 0, nfd |-> 0, keydir |-> EmptyEngine]

\* no file, and no disk engine open
DiskInit ==
    /\ paths = [p \in Paths |-> 0]
    /\ files = <<>>
    /\ disk = [e \in Engines |-> Closed]
    /\ applied = <<>>
    /\ dlast = [op |-> "none", eng |-> 0, result |-> "Ok"]
    /\ dcount = [opens |-> 0, writes |-> 0, compacts |-> 0]

\* nothing handed to the codec
NoProbe == [op |-> "none", a |-> <<>>, b |-> <<>>, out |-> <<>>]

\* Mvcc::new over MemoryEngine::new
\* the threads that share one Mvcc
Threads == {1, 2}
Poisoned == -1

\* a thread that is in no call; h is the handle it holds, 0 for none
Idle(h) ==
    [pc |-> "idle", op |-> "none", key |-> <<>>, value |-> <<>>, h |-> h,
     version |-> 0, active |-> {}, keys |-> <<>>, result |-> Result("Ok", <<>>)]

ThreadInit ==
    /\ mutex = 0
    /\ thread = [t \in Threads |-> Idle(0)]

Init ==
    /\ engine = EmptyEngine
    /\ txns = <<>>
    /\ status = <<>>
    /\ hist = <<>>
    /\ ended = <<>>
    /\ last = Call("new", 0, <<>>, <<>>, Result("Ok", <<>>))
    /\ panicked = FALSE
    /\ ops = 0
    /\ DiskInit
    /\ probe = NoProbe
    /\ ThreadInit

\* every call: none after a panic, and the bound on the length of a run
Called(op, t, key, value, result) ==
    /\ ~panicked
    /\ ops < MaxOps
    /\ ops' = ops + 1
    /\ last' = Call(op, t, key, value, result)
    /\ panicked' = (result.tag = "Panic")
    /\ UNCHANGED <<diskVars, probe, threadVars>>

\* Mvcc::begin
Begin ==
    /\ Len(txns) < MaxTxn
    /\ LET out == begin(engine)
       IN /\ engine' = out.data
          /\ IF out.result.tag = "Ok"
             THEN /\ txns' = Append(txns, out.result.value)
                  /\ status' = Append(status, "Active")
                  /\ hist' = Append(hist, [k \in UserKeys |-> NoHistory])
                  /\ ended' = Append(ended, Handles \ Live)
             ELSE UNCHANGED <<txns, status, hist, ended>>
          /\ Called("begin", Len(txns'), <<>>, <<>>, out.result)

\* the history of a set or delete of key by handle t
Written(t, key, payload, result) ==
    hist' = [hist EXCEPT ![t][key] =
                [attempt |-> result.tag,
                 payload |-> IF result.tag = "Ok" THEN <<payload>> ELSE @.payload,
                 writes |-> IF result.tag = "Ok" THEN @.writes + 1 ELSE @.writes]]

\* MvccTransaction::set on handle t
Set(t, key, value) ==
    LET out == set(engine, txns[t], key, value)
    IN /\ Called("set", t, key, value, out.result)
       /\ engine' = out.data
       /\ Written(t, key, Some(value), out.result)
       /\ UNCHANGED <<txns, status, ended>>

\* MvccTransaction::delete on handle t
Delete(t, key) ==
    LET out == delete(engine, txns[t], key)
    IN /\ Called("delete", t, key, <<>>, out.result)
       /\ engine' = out.data
       /\ Written(t, key, None, out.result)
       /\ UNCHANGED <<txns, status, ended>>

\* MvccTransaction::get on handle t
Get(t, key) ==
    /\ Called("get", t, key, <<>>, get(engine, txns[t], key))
    /\ UNCHANGED <<engine, txns, status, hist, ended>>

\* MvccTransaction::scan_prefix on handle t
ScanPrefix(t, prefix) ==
    /\ Called("scan_prefix", t, prefix, <<>>, scan_prefix(engine, txns[t], prefix))
    /\ UNCHANGED <<engine, txns, status, hist, ended>>

\* the history of a commit or rollback of handle t
Ended(t, how, result) ==
    status' = IF result.tag = "Ok" /\ status[t] = "Active"
              THEN [status EXCEPT ![t] = how] ELSE status

\* MvccTransaction::commit on handle t
Commit(t) ==
    LET out == commit(engine, txns[t])
    IN /\ Called("commit", t, <<>>, <<>>, out.result)
       /\ engine' = out.data
       /\ Ended(t, "Committed", out.result)
       /\ UNCHANGED <<txns, hist, ended>>

\* MvccTransaction::rollback on handle t
Rollback(t) ==
    LET out == rollback(engine, txns[t])
    IN /\ Called("rollback", t, <<>>, <<>>, out.result)
       /\ engine' = out.data
       /\ Ended(t, "RolledBack", out.result)
       /\ UNCHANGED <<txns, hist, ended>>

\* The callers keep the lifecycle of a transaction: a handle is used until
\* its commit or rollback and not after it.
Next ==
    \/ Begin
    \/ \E t \in Live, key \in UserKeys, value \in UserValues : Set(t, key, value)
    \/ \E t \in Live, key \in UserKeys : Delete(t, key)
    \/ \E t \in Live, key \in UserKeys : Get(t, key)
    \/ \E t \in Live, prefix \in UserPrefixes : ScanPrefix(t, prefix)
    \/ \E t \in Live : Commit(t)
    \/ \E t \in Live : Rollback(t)

Spec == Init /\ [][Next]_vars

\* The handles take calls after commit and rollback as well: the methods
\* borrow the handle (&self) and MvccTransaction keeps no lifecycle state.
NextReuse ==
    \/ Begin
    \/ \E t \in Handles, key \in UserKeys, value \in UserValues : Set(t, key, value)
    \/ \E t \in Handles, key \in UserKeys : Delete(t, key)
    \/ \E t \in Handles, key \in UserKeys : Get(t, key)
    \/ \E t \in Handles, prefix \in UserPrefixes : ScanPrefix(t, prefix)
    \/ \E t \in Handles : Commit(t)
    \/ \E t \in Handles : Rollback(t)

SpecReuse == Init /\ [][NextReuse]_vars

TypeOK ==
    /\ Len(txns) <= MaxTxn
    /\ Len(status) = Len(txns)
    /\ panicked \in BOOLEAN

(***************************************************************************)
(* The records of the store, read back through the decoder.                *)
(***************************************************************************)
\* keys the properties read: the user keys, the empty key, a key no
\* transaction writes, and a key that extends another by a 0x00 byte
ProbeKeys == UserKeys \cup {<<>>, <<98>>, <<97, 0, 0>>}

\* the Version records of the store: user key, version and stored payload
VersionRecords(data) ==
    {[key |-> decode(x).key, version |-> decode(x).version,
      payload |-> bincode_deserialize_option(data[x])] :
        x \in {y \in DOMAIN data : decode(y).variant = "Version"}}

\* the snapshot read of k among the Version records recs: the payload of
\* the record of k with the greatest version w such that w <= version and
\* w is not an active version; absent when there is none
SnapshotRead(recs, state, k) ==
    LET vis == {r \in recs : /\ r.key = k
                             /\ r.version <= state.version
                             /\ r.version \notin state.active_versions}
    IN IF vis = {} THEN None
       ELSE (CHOOSE r \in vis : \A q \in vis : q.version <= r.version).payload

(***************************************************************************)
(* C1  Snapshot-isolated read: for every handle T and key k, T.get(k)      *)
(* returns the payload stored under Version(k, w) for the greatest w with  *)
(* w <= T.version and w not in T.active_versions that has a record, and    *)
(* absent when there is none or the record is a tombstone.                 *)
(***************************************************************************)
C1_SnapshotRead ==
    LET recs == VersionRecords(engine)
    IN \A t \in Handles, k \in ProbeKeys :
          get(engine, txns[t], k) = Result("Ok", SnapshotRead(recs, txns[t], k))

\* a get has returned while a record of its key that the handle must not
\* see (a newer version, or one of its active set) is stored
C1_Witness ==
    /\ last.op = "get"
    /\ last.result.tag = "Ok"
    /\ \E r \in VersionRecords(engine) :
          /\ r.key = last.key
          /\ \/ r.version > txns[last.txn].version
             \/ r.version \in txns[last.txn].active_versions

(***************************************************************************)
(* Histories used by the properties.                                       *)
(***************************************************************************)
\* a and b are concurrent: the later one began before the earlier one had
\* committed or rolled back (handles are numbered in the order of begin)
Concurrent(a, b) ==
    /\ a # b
    /\ IF a < b THEN a \notin ended[b] ELSE b \notin ended[a]

\* handle t has written key k, and has not rolled the write back
HoldsWrite(t, k) == hist[t][k].payload # <<>> /\ status[t] # "RolledBack"

\* the payloads of a write: the tombstone of delete and the values of set
Payloads == {None} \cup {Some(v) : v \in UserValues}

(***************************************************************************)
(* C2 as stated  Write-conflict detection: of two concurrent transactions  *)
(* that both attempt set or delete on the same key, exactly one attempt    *)
(* succeeds and the other fails with WriteConflict.                        *)
(***************************************************************************)
C2_ExactlyOneSucceeds ==
    \A a \in Handles, b \in Handles, k \in UserKeys :
        (/\ Concurrent(a, b)
         /\ hist[a][k].attempt # "none"
         /\ hist[b][k].attempt # "none")
        => \/ hist[a][k].attempt = "Ok" /\ hist[b][k].attempt = "WriteConflict"
           \/ hist[a][k].attempt = "WriteConflict" /\ hist[b][k].attempt = "Ok"

(***************************************************************************)
(* C2 as amended  Of two concurrent transactions, once one has written     *)
(* key k and has not rolled back, every set or delete of k by the other    *)
(* fails with WriteConflict, whether or not the writer has committed; so   *)
(* both attempts succeed only when one of the two has rolled back.         *)
(***************************************************************************)
C2_ConflictDetection ==
    \A a \in Handles, b \in Handles, k \in UserKeys :
        Concurrent(a, b) =>
            /\ HoldsWrite(a, k) =>
                  \A payload \in Payloads :
                      write_inner(engine, txns[b], k, payload).result.tag
                          = "WriteConflict"
            /\ (hist[a][k].attempt = "Ok" /\ hist[b][k].attempt = "Ok") =>
                  (status[a] = "RolledBack" \/ status[b] = "RolledBack")

\* a write has failed with WriteConflict against a concurrent transaction
\* that wrote the key and has committed since
C2_Witness ==
    /\ last.op \in {"set", "delete"}
    /\ last.result.tag = "WriteConflict"
    /\ \E a \in Handles :
          /\ Concurrent(a, last.txn)
          /\ status[a] = "Committed"
          /\ hist[a][last.key].payload # <<>>

\* the prefixes the properties probe scan_prefix with
ProbePrefixes == {<<>>, <<97>>, <<98>>, <<97, 0>>, <<97, 0, 0>>}

\* the store without the Version records written at version v
Without(data, v) ==
    [x \in {y \in DOMAIN data :
               LET r == decode(y) IN ~(r.variant = "Version" /\ r.version = v)}
        |-> data[x]]

(***************************************************************************)
(* C3  Dirty-read prevention: while W has not committed, get and           *)
(* scan_prefix of every other transaction return what they return on the   *)
(* store without the records W wrote, whether W wrote a value or a         *)
(* deletion and whether the reader began before or after W's write.        *)
(***************************************************************************)
C3_NoDirtyRead ==
    \A w \in Handles :
        status[w] # "Committed" =>
            LET clean == Without(engine, txns[w].version) IN
            \A t \in Handles \ {w} :
                /\ \A k \in UserKeys :
                      get(engine, txns[t], k) = get(clean, txns[t], k)
                /\ \A p \in ProbePrefixes :
                      scan_prefix(engine, txns[t], p)
                          = scan_prefix(clean, txns[t], p)

\* a transaction that began after the write of an uncommitted W to the key
\* has read that key
C3_Witness ==
    /\ last.op = "get"
    /\ last.result.tag = "Ok"
    /\ \E w \in Handles :
          /\ w < last.txn
          /\ status[w] = "Active"
          /\ hist[w][last.key].payload # <<>>

\* the step is a set or delete of key k by handle t
WritesKey(t, k) ==
    /\ last'.op \in {"set", "delete"}
    /\ last'.txn = t
    /\ last'.key = k

(***************************************************************************)
(* C4  Repeatable read: no step other than T's own write of key k changes  *)
(* what get(k) returns to the active transaction T, whatever the other     *)
(* transactions write or commit.                                           *)
(***************************************************************************)
C4_RepeatableRead ==
    [][\A t \in Handles, k \in UserKeys :
          (status[t] = "Active" /\ status'[t] = "Active" /\ ~WritesKey(t, k))
          => get(engine', txns[t], k) = get(engine, txns[t], k)]_vars

\* T has read a key that a transaction which was active or not yet begun
\* when T began has written and committed
C4_Witness ==
    /\ last.op = "get"
    /\ last.result.tag = "Ok"
    /\ hist[last.txn][last.key].payload = <<>>
    /\ \E w \in Handles :
          /\ w # last.txn
          /\ w \notin ended[last.txn]
          /\ status[w] = "Committed"
          /\ hist[w][last.key].payload # <<>>

(***************************************************************************)
(* C5  No phantoms: no step other than T's own write of a key under the    *)
(* prefix changes the list scan_prefix(prefix) returns to the active       *)
(* transaction T, whatever the other transactions insert, delete or        *)
(* commit under that prefix.                                               *)
(***************************************************************************)
C5_NoPhantoms ==
    [][\A t \in Handles, p \in ProbePrefixes :
          (/\ status[t] = "Active"
           /\ status'[t] = "Active"
           /\ ~(\E k \in UserKeys : IsPrefix(p, k) /\ WritesKey(t, k)))
          => scan_prefix(engine', txns[t], p) = scan_prefix(engine, txns[t], p)]_vars

\* T has scanned a prefix under which a transaction that was active or not
\* yet begun when T began has written a key and committed
C5_Witness ==
    /\ last.op = "scan_prefix"
    /\ last.result.tag = "Ok"
    /\ \E w \in Handles, k \in UserKeys :
          /\ w # last.txn
          /\ w \notin ended[last.txn]
          /\ status[w] = "Committed"
          /\ IsPrefix(last.key, k)
          /\ hist[w][k].payload # <<>>

\* no TxnActive, TxnWrite or Version record of version v is stored
NoRecordsOf(data, v) ==
    \A x \in DOMAIN data :
        LET r == decode(x)
        IN r.variant \in {"TxnActive", "TxnWrite", "Version"} => r.version # v

(***************************************************************************)
(* C6  Rollback erases writes: after T's rollback no Version, TxnWrite or  *)
(* TxnActive record of T's version is stored, and every transaction reads  *)
(* for each key what it reads on the store before the rollback without     *)
(* the records T wrote.                                                    *)
(***************************************************************************)
C6_RollbackErases ==
    [][\A t \in Handles :
          status'[t] = "RolledBack" =>
              /\ NoRecordsOf(engine', txns[t].version)
              /\ status[t] = "Active" =>
                    LET clean == Without(engine, txns[t].version) IN
                    \A x \in Handles, k \in UserKeys :
                        get(engine', txns[x], k) = get(clean, txns[x], k)]_vars

\* a transaction has read a key that a rolled-back transaction had written
C6_Witness ==
    /\ last.op = "get"
    /\ last.result.tag = "Ok"
    /\ \E t \in Handles :
          /\ t # last.txn
          /\ status[t] = "RolledBack"
          /\ hist[t][last.key].payload # <<>>

\* the payload handle t wrote last under key k is stored at t's version
StoredWrite(t, k) ==
    LET x == encode(VersionKey(k, txns[t].version))
    IN /\ x \in DOMAIN engine
       /\ bincode_deserialize_option(engine[x]) = hist[t][k].payload[1]

\* no marker of handle t is stored: neither TxnActive nor TxnWrite
NoMarkersOf(t) ==
    \A x \in DOMAIN engine :
        LET r == decode(x)
        IN r.variant \in {"TxnActive", "TxnWrite"} => r.version # txns[t].version

\* a transaction that began after t and has committed wrote key k
LaterCommittedWriter(t, k) ==
    \E l \in Handles :
        /\ l > t
        /\ status[l] = "Committed"
        /\ hist[l][k].payload # <<>>

(***************************************************************************)
(* C7 as stated  Commit publishes writes: after T's commit its markers are *)
(* gone and its Version records are stored; every transaction that begins  *)
(* after the commit reads T's value for each key T wrote, unless a later   *)
(* committed transaction wrote that key; transactions that began before    *)
(* the commit do not see T's writes.                                       *)
(***************************************************************************)
C7_CommitPublishes ==
    \A t \in Handles :
        status[t] = "Committed" =>
            /\ NoMarkersOf(t)
            /\ \A k \in UserKeys : hist[t][k].payload # <<>> =>
                  /\ StoredWrite(t, k)
                  /\ \A x \in Handles \ {t} :
                        IF t \in ended[x]
                        THEN LaterCommittedWriter(t, k)
                             \/ get(engine, txns[x], k)
                                    = Result("Ok", hist[t][k].payload[1])
                        ELSE get(engine, txns[x], k)
                                 = get(Without(engine, txns[t].version), txns[x], k)

(***************************************************************************)
(* C7 as amended  The same, the reader being excepted for a key it wrote   *)
(* itself: a transaction that begins after T's commit reads T's value for  *)
(* each key T wrote unless the reader itself or a later committed          *)
(* transaction wrote that key.                                             *)
(***************************************************************************)
C7_CommitPublishesToOthers ==
    \A t \in Handles :
        status[t] = "Committed" =>
            /\ NoMarkersOf(t)
            /\ \A k \in UserKeys : hist[t][k].payload # <<>> =>
                  /\ StoredWrite(t, k)
                  /\ \A x \in Handles \ {t} :
                        IF t \in ended[x]
                        THEN \/ LaterCommittedWriter(t, k)
                             \/ HoldsWrite(x, k)
                             \/ get(engine, txns[x], k)
                                    = Result("Ok", hist[t][k].payload[1])
                        ELSE get(engine, txns[x], k)
                                 = get(Without(engine, txns[t].version), txns[x], k)

\* a transaction that began after T's commit has read the value T wrote
C7_Witness ==
    /\ last.op = "get"
    /\ \E t \in Handles :
          /\ t \in ended[last.txn]
          /\ status[t] = "Committed"
          /\ hist[t][last.key].payload # <<>>
          /\ hist[last.txn][last.key].payload = <<>>
          /\ last.result = Result("Ok", hist[t][last.key].payload[1])
          /\ last.result.value # None

(***************************************************************************)
(* C8  Read-your-own-writes: T's version is never in T's active set, and   *)
(* the active T reads for each key it has written the payload of its own   *)
(* last write: the value of a set, absence after a delete.                 *)
(***************************************************************************)
C8_ReadYourOwnWrites ==
    \A t \in Handles :
        /\ txns[t].version \notin txns[t].active_versions
        /\ status[t] = "Active" =>
              \A k \in UserKeys : hist[t][k].payload # <<>> =>
                  get(engine, txns[t], k) = Result("Ok", hist[t][k].payload[1])

\* T has read absence for a key it set and then deleted
C8_Witness ==
    /\ last.op = "get"
    /\ status[last.txn] = "Active"
    /\ hist[last.txn][last.key].payload = <<None>>
    /\ last.result = Result("Ok", None)
    /\ \E x \in DOMAIN engine :
          /\ decode(x).variant = "Version"
          /\ decode(x).key = last.key

(***************************************************************************)
(* C9  Transaction lifecycle: once a handle has committed or rolled back,  *)
(* every later call on it (set, delete, get, scan_prefix, commit,          *)
(* rollback) is rejected and changes no record of the store.               *)
(***************************************************************************)
C9_TerminalRejects ==
    [][(/\ last'.op \in {"set", "delete", "get", "scan_prefix", "commit", "rollback"}
        /\ status[last'.txn] # "Active")
       => (last'.result.tag # "Ok" /\ engine' = engine)]_vars

\* the keys the snapshot of state holds a value for, under prefix p
SnapshotKeys(recs, state, p) ==
    {k \in {r.key : r \in recs} :
        IsPrefix(p, k) /\ SnapshotRead(recs, state, k) # None}

\* the list of (key, value) pairs of the snapshot under prefix p, in key order
SnapshotScan(recs, state, p) ==
    LET keys == SortedKeys(SnapshotKeys(recs, state, p))
    IN [i \in 1..Len(keys) |->
           <<keys[i], SnapshotRead(recs, state, keys[i])[1]>>]

(***************************************************************************)
(* C10  Snapshot prefix scan: for every prefix whose last byte is not      *)
(* 0xFF, scan_prefix returns, in ascending key order and once per key,     *)
(* the pairs (k, v) of the keys k starting with the prefix whose           *)
(* snapshot-visible value is v; a key whose visible record is a deletion   *)
(* is left out.                                                            *)
(***************************************************************************)
C10_SnapshotScan ==
    LET recs == VersionRecords(engine) IN
    \A t \in Handles, p \in ProbePrefixes :
        (p = <<>> \/ p[Len(p)] # 255) =>
            scan_prefix(engine, txns[t], p)
                = Result("Ok", SnapshotScan(recs, txns[t], p))

\* the same for the prefixes that end neither in 0xFF nor in 0x00
C10_SnapshotScanNonZero ==
    LET recs == VersionRecords(engine) IN
    \A t \in Handles, p \in ProbePrefixes :
        (p = <<>> \/ p[Len(p)] \notin {0, 255}) =>
            scan_prefix(engine, txns[t], p)
                = Result("Ok", SnapshotScan(recs, txns[t], p))

(***************************************************************************)
(* The SQL engine facade (sql/engine/mod.rs, sql/engine/kv.rs): a session  *)
(* runs each statement in a transaction of its own over the MVCC layer.    *)
(* Tables have one integer column, the primary key of their rows.          *)
(***************************************************************************)
\* the table names and the primary keys of the statements
TableNames == {<<116>>, <<117>>}
RowIds == {1, 2}

\* bincode of a String: the length as u64, then the bytes
bincode_serialize_string(str) == to_le_bytes(Len(str), 8) \o str

\* bincode of the variant index of an enum: u32, little-endian
bincode_variant(index) == to_le_bytes(index, 4)

\* bincode of Value::Integer(id), variant 0 of Value
bincode_serialize_integer(id) == bincode_variant(0) \o to_le_bytes(id, 8)

\* bincode of Key::Table(name), Key::Row(name, Integer(id)) and
\* KeyPrefix::Row(name)
Key_Table(name) == bincode_variant(0) \o bincode_serialize_string(name)
Key_Row(name, id) ==
    bincode_variant(1) \o bincode_serialize_string(name)
        \o bincode_serialize_integer(id)
KeyPrefix_Row(name) == bincode_variant(1) \o bincode_serialize_string(name)

\* bincode of the Table of a create statement: its name and its one column
serialize_table(name) == bincode_serialize_string(name) \o to_le_bytes(1, 8)

\* bincode of the Row <<Integer(id)>>: the length of the Vec, then the value
serialize_row(id) == to_le_bytes(1, 8) \o bincode_serialize_integer(id)

\* KVTransaction::commit and KVTransaction::rollback
KVTransaction_commit(data, state) == Outcome(data, Result("Ok", <<>>))
KVTransaction_rollback(data, state) == Outcome(data, Result("Ok", <<>>))

\* KVTransaction::get_table: is the table stored, as the transaction reads it
get_table(data, state, name) == get(data, state, Key_Table(name))

\* KVTransaction::create_table
create_table(data, state, name) ==
    LET found == get_table(data, state, name)
    IN IF found.tag # "Ok" THEN Outcome(data, found)
       ELSE IF found.value # None
            THEN Outcome(data, Result("Internal", <<>>))
            ELSE set(data, state, Key_Table(name), serialize_table(name))

\* Insert::execute of one row: must_get_table, then KVTransaction::create_row
insert_row(data, state, name, id) ==
    LET found == get_table(data, state, name)
    IN IF found.tag # "Ok" THEN Outcome(data, found)
       ELSE IF found.value = None
            THEN Outcome(data, Result("Internal", <<>>))
            ELSE set(data, state, Key_Row(name, id), serialize_row(id))

\* the scan executor: must_get_table, then KVTransaction::scan_table
scan_table(data, state, name) ==
    LET found == get_table(data, state, name)
    IN IF found.tag # "Ok" THEN Outcome(data, found)
       ELSE IF found.value = None
            THEN Outcome(data, Result("Internal", <<>>))
            ELSE Outcome(data, scan_prefix(data, state, KeyPrefix_Row(name)))

\* the statements of a session
CreateTable(name) == [kind |-> "create", table |-> name, id |-> 0]
Insert(name, id) == [kind |-> "insert", table |-> name, id |-> id]
Select(name) == [kind |-> "select", table |-> name, id |-> 0]
Statements ==
    {CreateTable(name) : name \in TableNames}
        \cup {Insert(name, id) : name \in TableNames, id \in RowIds}
        \cup {Select(name) : name \in TableNames}

\* Session::execute after the plan has run: commit on Ok and rollback on
\* Err through the KVTransaction
Session_finish(run, done, state) ==
    [data |-> done.data,
     result |-> IF done.result.tag = "Ok" THEN run.result ELSE done.result,
     state |-> <<state>>]

\* Session::execute with the plan's outcome
Session_end(run, state) ==
    Session_finish(run,
                   IF run.result.tag = "Ok"
                   THEN KVTransaction_commit(run.data, state)
                   ELSE KVTransaction_rollback(run.data, state),
                   state)

\* Session::execute with the transaction begun: build the executor of the
\* statement and run it
Session_run(data, state, stmt) ==
    Session_end(CASE stmt.kind = "create" -> create_table(data, state, stmt.table)
                  [] stmt.kind = "insert" -> insert_row(data, state, stmt.table, stmt.id)
                  [] stmt.kind = "select" -> scan_table(data, state, stmt.table),
                state)

\* Session::execute after begin: its error is returned as it is
Session_begun(begun, stmt) ==
    IF begun.result.tag # "Ok"
    THEN [data |-> begun.data, result |-> begun.result, state |-> <<>>]
    ELSE Session_run(begun.data, begun.result.value, stmt)

\* Session::execute: begin, run the plan, then commit or rollback; the state
\* is the TransactionState begun
Session_execute(data, stmt) == Session_begun(begin(data), stmt)

\* the session and the calls' record after execute returned out
Executed(out, stmt) ==
    /\ engine' = out.data
    /\ IF out.state # <<>>
       THEN /\ txns' = Append(txns, out.state[1])
            /\ status' = Append(status, "Active")
            /\ hist' = Append(hist, [k \in UserKeys |-> NoHistory])
            /\ ended' = Append(ended, Handles \ Live)
       ELSE UNCHANGED <<txns, status, hist, ended>>
    /\ Called("execute", Len(txns'), stmt, <<>>, out.result)

\* Session::execute of one statement
Execute(stmt) == Executed(Session_execute(engine, stmt), stmt)

NextSession == \E stmt \in Statements : Execute(stmt)

SpecSession == Init /\ [][NextSession]_vars

(***************************************************************************)
(* C11  Statement commit through the facade: after a successful execute    *)
(* the TxnActive marker of the statement's transaction is removed, and a   *)
(* table created by one execute is found by a following insert or select.  *)
(***************************************************************************)
C11_StatementCommitted ==
    (last.op = "execute" /\ last.result.tag = "Ok") =>
        /\ encode(TxnActiveKey(txns[last.txn].version)) \notin DOMAIN engine
        /\ last.key.kind = "create" =>
              /\ \A id \in RowIds :
                    Session_execute(engine, Insert(last.key.table, id)).result.tag
                        = "Ok"
              /\ Session_execute(engine, Select(last.key.table)).result.tag = "Ok"

\* the second part alone: the table a successful create statement made is
\* found by the next insert and the next select
C11_CreatedTableFound ==
    (last.op = "execute" /\ last.result.tag = "Ok" /\ last.key.kind = "create") =>
        /\ \A id \in RowIds :
              Session_execute(engine, Insert(last.key.table, id)).result.tag = "Ok"
        /\ Session_execute(engine, Select(last.key.table)).result.tag = "Ok"

(***************************************************************************)
(* The disk engine (storage/disk.rs): an append-only log file and the      *)
(* keydir, the index from each live key to the offset and the length of    *)
(* its value in the log.  File offsets count from 0.                       *)
(***************************************************************************)
\* bounds of the disk runs: engines opened, records appended, compactions
MaxOpens == 2
MaxWrites == 2
MaxCompacts == 1

\* the keys and values written to a disk engine
DiskKeys == {<<>>, <<97>>}
DiskValues == {<<>>, <<7>>}

\* the key and the value written where processes share the file system
SharedKeys == {<<97>>}
SharedValues == {<<7>>}

LOG_HEADER_SIZE == 8

\* i32::to_be_bytes and i32::from_be_bytes, -1 being ff ff ff ff
i32_to_be_bytes(x) == IF x = -1 THEN <<255, 255, 255, 255>> ELSE to_be_bytes(x, 4)
i32_from_be_bytes(bytes) ==
    IF bytes = <<255, 255, 255, 255>> THEN -1 ELSE from_be_bytes(bytes)

\* write_entry on a file opened with truncate: the record replaces the content
write_entry_truncating(content, key, value) ==
    [content |-> to_be_bytes(Len(key), 4)
                   \o i32_to_be_bytes(IF value = None THEN -1 ELSE Len(value[1]))
                   \o key
                   \o (IF value = None THEN <<>> ELSE value[1]),
     offset |-> 0,
     size |-> LOG_HEADER_SIZE + Len(key) + (IF value = None THEN 0 ELSE Len(value[1]))]

\* Log::write_entry: the content with the record appended, the offset of the
\* record and its size
write_entry(content, key, value) ==
    LET key_size == Len(key)
        value_size == IF value = None THEN 0 ELSE Len(value[1])
        total_size == LOG_HEADER_SIZE + key_size + value_size
    IN [content |-> content
                      \o to_be_bytes(key_size, 4)
                      \o i32_to_be_bytes(IF value = None THEN -1 ELSE Len(value[1]))
                      \o key
                      \o (IF value = None THEN <<>> ELSE value[1]),
        offset |-> Len(content),
        size |-> total_size]

\* Log::read_entry: the key and the value length of the record at offset;
\* read_exact fails where the file ends before the bytes asked for
read_entry(content, offset) ==
    IF offset + 8 > Len(content)
    THEN [tag |-> "Err", key |-> <<>>, value_size |-> 0]
    ELSE LET key_size == from_be_bytes(SubSeq(content, offset + 1, offset + 4))
             value_size == i32_from_be_bytes(SubSeq(content, offset + 5, offset + 8))
         IN IF offset + 8 + key_size > Len(content)
            THEN [tag |-> "Err", key |-> <<>>, value_size |-> 0]
            ELSE [tag |-> "Ok",
                  key |-> SubSeq(content, offset + 9, offset + 8 + key_size),
                  value_size |-> value_size]

\* replay that takes a tombstone for a record with an empty value
replay_entry_keeping_deleted(keydir, key, value_size, offset) ==
    IF value_size = -1
    THEN [keydir |-> Engine_set(keydir, key, <<offset + LOG_HEADER_SIZE + Len(key), 0>>),
          offset |-> offset + LOG_HEADER_SIZE + Len(key)]
    ELSE [keydir |-> Engine_set(keydir, key,
                                <<offset + LOG_HEADER_SIZE + Len(key), value_size>>),
          offset |-> offset + Len(key) + value_size + LOG_HEADER_SIZE]

\* the body of the loop of Log::build_keydir: the keydir and the offset
\* after the record of key at offset
replay_entry(keydir, key, value_size, offset) ==
    IF value_size = -1
    THEN [keydir |-> Engine_delete(keydir, key),
          offset |-> offset + LOG_HEADER_SIZE + Len(key)]
    ELSE [keydir |-> Engine_set(keydir, key,
                                <<offset + LOG_HEADER_SIZE + Len(key), value_size>>),
          offset |-> offset + Len(key) + value_size + LOG_HEADER_SIZE]

RECURSIVE build_keydir_from(_, _, _)
\* the loop of Log::build_keydir, from offset
build_keydir_from(content, offset, keydir) ==
    IF offset >= Len(content) THEN [tag |-> "Ok", keydir |-> keydir]
    ELSE LET entry == read_entry(content, offset)
         IN IF entry.tag # "Ok" THEN [tag |-> "Err", keydir |-> EmptyEngine]
            ELSE LET next == replay_entry(keydir, entry.key, entry.value_size, offset)
                 IN build_keydir_from(content, next.offset, next.keydir)

\* Log::build_keydir
build_keydir(content) == build_keydir_from(content, 0, EmptyEngine)

\* Log::read_value
read_value(content, offset, value_size) ==
    IF offset + value_size > Len(content) THEN Result("Err", <<>>)
    ELSE Result("Ok", SubSeq(content, offset + 1, offset + value_size))

\* DiskEngine::set: the keydir and the content of the log after it
Disk_set(keydir, content, key, value) ==
    LET written == write_entry(content, key, Some(value))
        value_size == Len(value)
    IN [keydir |-> Engine_set(keydir, key,
                              <<written.offset + written.size - value_size, value_size>>),
        content |-> written.content]

\* the tombstone is written and the entry of the key stays in the keydir
Disk_delete_keeping_entry(keydir, content, key) ==
    [keydir |-> keydir,
     content |-> write_entry(content, key, None).content]

\* DiskEngine::delete
Disk_delete(keydir, content, key) ==
    [keydir |-> Engine_delete(keydir, key),
     content |-> write_entry(content, key, None).content]

\* DiskEngine::get
Disk_get(keydir, content, key) ==
    IF key \in DOMAIN keydir
    THEN LET val == read_value(content, keydir[key][1], keydir[key][2])
         IN IF val.tag = "Ok" THEN Result("Ok", Some(val.value)) ELSE val
    ELSE Result("Ok", None)

\* DiskEngine::scan with DiskEngineIterator::map: the range of the keydir,
\* each value read from the log; failed when a read fails
Disk_scan(keydir, content, start, end) ==
    LET found == Engine_scan(keydir, start, end)
        value(i) == read_value(content, found.items[i][2][1], found.items[i][2][2])
    IN [panic |-> found.panic,
        failed |-> \E i \in 1..Len(found.items) : value(i).tag # "Ok",
        items |-> [i \in 1..Len(found.items) |-> <<found.items[i][1], value(i).value>>]]

\* Engine::scan_prefix over DiskEngine::scan
Disk_scan_prefix(keydir, content, prefix) ==
    IF prefix = <<>> THEN Disk_scan(keydir, content, Included(prefix), Excluded(prefix))
    ELSE IF prefix[Len(prefix)] = 255
         THEN [panic |-> TRUE, failed |-> FALSE, items |-> <<>>]
         ELSE Disk_scan(keydir, content, Included(prefix),
                        Excluded([prefix EXCEPT ![Len(prefix)] = @ + 1]))

\* an offset that points at the header of the record
compact_record_offset(new_offset, new_size, value_size) == new_offset

\* the offset of the value in the record write_entry appended at new_offset
compact_value_offset(new_offset, new_size, value_size) ==
    new_offset + new_size - value_size

RECURSIVE compact_rewrite(_, _, _, _, _)
\* the loop of DiskEngine::compact over the keys of the keydir in ascending
\* order: the new keydir and the content of the new log
compact_rewrite(keys, keydir, content, new_keydir, new_content) ==
    IF keys = <<>>
    THEN [tag |-> "Ok", keydir |-> new_keydir, content |-> new_content]
    ELSE LET key == keys[1]
             value_size == keydir[key][2]
             value == read_value(content, keydir[key][1], value_size)
             written == write_entry(new_content, key, Some(value.value))
         IN IF value.tag # "Ok"
            THEN [tag |-> "Err", keydir |-> new_keydir, content |-> new_content]
            ELSE compact_rewrite(
                     Tail(keys), keydir, content,
                     Engine_set(new_keydir, key,
                                <<compact_value_offset(written.offset, written.size,
                                                       value_size),
                                  value_size>>),
                     written.content)

(***************************************************************************)
(* The disk engines of the processes over one file system.  Log::new is    *)
(* two system calls, the open of the path and the try_lock_exclusive of    *)
(* the file opened, and other processes run between them.  get and scan    *)
(* change neither the keydir nor the log: the properties evaluate          *)
(* Disk_get and Disk_scan in every state.                                  *)
(***************************************************************************)
\* a file as OpenOptions creates it, and the history of a new file
NewFile == [content |-> <<>>, lock |-> NoLock]
NewHistory == [mem |-> EmptyEngine, pure |-> TRUE, opens |-> 0]

\* the file OpenOptions::new().create(true).read(true).write(true).open(path)
\* yields: the file at the path, a new one when there is none
Opened(path) == IF paths[path] = 0 THEN Len(files) + 1 ELSE paths[path]

\* the file system after that open
Open(path) ==
    /\ paths' = [paths EXCEPT ![path] = Opened(path)]
    /\ files' = IF paths[path] = 0 THEN Append(files, NewFile) ELSE files
    /\ applied' = IF paths[path] = 0 THEN Append(applied, NewHistory) ELSE applied

DStep(op, e, result) ==
    /\ dlast' = [op |-> op, eng |-> e, result |-> result]
    /\ UNCHANGED <<mvccVars, probe, threadVars>>

\* DiskEngine::new, Log::new: the open of the path
DNew(e, path) ==
    /\ disk[e].pc = "closed"
    /\ dcount.opens < MaxOpens
    /\ Open(path)
    /\ disk' = [disk EXCEPT ![e] = [pc |-> "opened", path |-> path,
                                    fd |-> Opened(path), nfd |-> 0,
                                    keydir |-> EmptyEngine]]
    /\ dcount' = [dcount EXCEPT !.opens = @ + 1]
    /\ DStep("open", e, "Ok")

\* DiskEngine::new, Log::new: try_lock_exclusive, and then build_keydir; on
\* an error the File is dropped and there is no engine
DLock(e) ==
    /\ disk[e].pc = "opened"
    /\ LET f == disk[e].fd
           built == build_keydir(files[f].content)
       IN IF files[f].lock = NoLock /\ built.tag = "Ok"
          THEN /\ files' = [files EXCEPT ![f].lock = LockOf(e, "log")]
               /\ disk' = [disk EXCEPT ![e].pc = "ready", ![e].keydir = built.keydir]
               /\ applied' = [applied EXCEPT ![f].opens = @ + 1]
               /\ DStep("new", e, "Ok")
          ELSE /\ disk' = [disk EXCEPT ![e] = Closed]
               /\ UNCHANGED <<files, applied>>
               /\ DStep("new", e, "Err")
    /\ UNCHANGED <<paths, dcount>>

\* DiskEngine::set
DSet(e, key, value) ==
    /\ disk[e].pc = "ready"
    /\ dcount.writes < MaxWrites
    /\ LET f == disk[e].fd
           out == Disk_set(disk[e].keydir, files[f].content, key, value)
       IN /\ files' = [files EXCEPT ![f].content = out.content]
          /\ disk' = [disk EXCEPT ![e].keydir = out.keydir]
          /\ applied' = [applied EXCEPT ![f].mem = Engine_set(@, key, value)]
    /\ dcount' = [dcount EXCEPT !.writes = @ + 1]
    /\ DStep("set", e, "Ok")
    /\ UNCHANGED paths

\* DiskEngine::delete
DDelete(e, key) ==
    /\ disk[e].pc = "ready"
    /\ dcount.writes < MaxWrites
    /\ LET f == disk[e].fd
           out == Disk_delete(disk[e].keydir, files[f].content, key)
       IN /\ files' = [files EXCEPT ![f].content = out.content]
          /\ disk' = [disk EXCEPT ![e].keydir = out.keydir]
          /\ applied' = [applied EXCEPT ![f].mem = Engine_delete(@, key)]
    /\ dcount' = [dcount EXCEPT !.writes = @ + 1]
    /\ DStep("delete", e, "Ok")
    /\ UNCHANGED paths

\* DiskEngine::compact, Log::new(new_path): the open of the sibling path
DCompactOpen(e) ==
    /\ disk[e].pc = "ready"
    /\ dcount.compacts < MaxCompacts
    /\ Open(Sibling(disk[e].path))
    /\ disk' = [disk EXCEPT ![e].pc = "compact_opened",
                            ![e].nfd = Opened(Sibling(disk[e].path))]
    /\ dcount' = [dcount EXCEPT !.compacts = @ + 1]
    /\ DStep("compact_open", e, "Ok")

\* DiskEngine::compact, Log::new(new_path): try_lock_exclusive; on an error
\* compact returns it and the engine is as before
DCompactLock(e) ==
    /\ disk[e].pc = "compact_opened"
    /\ IF files[disk[e].nfd].lock = NoLock
       THEN /\ files' = [files EXCEPT ![disk[e].nfd].lock = LockOf(e, "new")]
            /\ disk' = [disk EXCEPT ![e].pc = "compacting"]
            /\ DStep("compact_lock", e, "Ok")
       ELSE /\ disk' = [disk EXCEPT ![e].pc = "ready", ![e].nfd = 0]
            /\ UNCHANGED files
            /\ DStep("compact", e, "Err")
    /\ UNCHANGED <<paths, applied, dcount>>

\* DiskEngine::compact: the rewrite of the live records into the new log,
\* the rename of the new file over the path, and the new Log and keydir in
\* place of the old ones (the old File is dropped, and its lock with it)
DCompactRewrite(e) ==
    /\ disk[e].pc = "compacting"
    /\ LET f == disk[e].fd
           n == disk[e].nfd
           path == disk[e].path
           out == compact_rewrite(SortedKeys(DOMAIN disk[e].keydir), disk[e].keydir,
                                  files[f].content, EmptyEngine, files[n].content)
       IN IF out.tag = "Ok" /\ paths[Sibling(path)] # 0
          THEN /\ files' = [files EXCEPT ![n].content = out.content,
                                         ![n].lock = LockOf(e, "log"),
                                         ![f].lock = NoLock]
               /\ paths' = [p \in Paths |->
                               IF p = path THEN paths[Sibling(path)]
                               ELSE IF p = Sibling(path) THEN 0 ELSE paths[p]]
               /\ disk' = [disk EXCEPT ![e].pc = "ready", ![e].fd = n,
                                       ![e].nfd = 0, ![e].keydir = out.keydir]
               /\ applied' = [applied EXCEPT ![n] = [mem |-> applied[f].mem,
                                                     pure |-> FALSE,
                                                     opens |-> @.opens + 1]]
               /\ DStep("compact", e, "Ok")
          ELSE /\ files' = [files EXCEPT ![n].content = out.content,
                                         ![n].lock = NoLock]
               /\ disk' = [disk EXCEPT ![e].pc = "ready", ![e].nfd = 0]
               /\ applied' = [applied EXCEPT ![n].pure = FALSE]
               /\ UNCHANGED paths
               /\ DStep("compact", e, "Err")
    /\ UNCHANGED dcount

\* the drop of a DiskEngine: its File is closed and the lock released
DDrop(e) ==
    /\ disk[e].pc = "ready"
    /\ files' = [files EXCEPT ![disk[e].fd].lock = NoLock]
    /\ disk' = [disk EXCEPT ![e] = Closed]
    /\ DStep("drop", e, "Ok")
    /\ UNCHANGED <<paths, applied, dcount>>

\* One process with its log at one path.
NextDisk ==
    \/ DNew(1, "db.log")
    \/ DLock(1)
    \/ \E key \in DiskKeys, value \in DiskValues : DSet(1, key, value)
    \/ \E key \in DiskKeys : DDelete(1, key)
    \/ DCompactOpen(1)
    \/ DCompactLock(1)
    \/ DCompactRewrite(1)
    \/ DDrop(1)

SpecDisk == Init /\ [][NextDisk]_vars

\* The processes open engines on the paths of one file system.
NextDiskShared ==
    \/ \E e \in Engines, path \in Paths : DNew(e, path)
    \/ \E e \in Engines : DLock(e)
    \/ \E e \in Engines, key \in SharedKeys, value \in SharedValues : DSet(e, key, value)
    \/ \E e \in Engines, key \in SharedKeys : DDelete(e, key)
    \/ \E e \in Engines : DCompactOpen(e)
    \/ \E e \in Engines : DCompactLock(e)
    \/ \E e \in Engines : DCompactRewrite(e)
    \/ \E e \in Engines : DDrop(e)

SpecDiskShared == Init /\ [][NextDiskShared]_vars

\* the engines that are open: constructed and not dropped
Ready == {e \in Engines : disk[e].pc \in {"ready", "compact_opened", "compacting"}}

\* the keys the properties read from a disk engine
ProbeDiskKeys == DiskKeys \cup {<<98>>}

\* what get and the full scan of disk engine e return
DiskGet(e, k) == Disk_get(disk[e].keydir, files[disk[e].fd].content, k)
DiskScanAll(e) ==
    Disk_scan(disk[e].keydir, files[disk[e].fd].content, Unbounded, Unbounded)

(***************************************************************************)
(* C12  Log replay: an engine opened on a file that was created empty and  *)
(* has only been written by set and delete reads, by get and by scan,      *)
(* the mapping of the memory engine that was given the same calls; so it   *)
(* does after the file was closed and opened again.                        *)
(***************************************************************************)
C12_LogReplay ==
    \A e \in Engines :
        (disk[e].pc = "ready" /\ applied[disk[e].fd].pure) =>
            LET mem == applied[disk[e].fd].mem
                all == DiskScanAll(e)
            IN /\ \A k \in ProbeDiskKeys :
                      DiskGet(e, k) = Result("Ok", Engine_get(mem, k))
               /\ ~all.panic
               /\ ~all.failed
               /\ all.items = Engine_scan(mem, Unbounded, Unbounded).items

\* an engine has been opened again on a log that holds more records than
\* the one live pair, the empty key with the empty value
C12_Witness ==
    /\ dlast.op = "new"
    /\ dlast.result = "Ok"
    /\ LET f == disk[dlast.eng].fd
       IN /\ applied[f].pure
          /\ applied[f].opens >= 2
          /\ DOMAIN applied[f].mem = {<<>>}
          /\ applied[f].mem[<<>>] = <<>>
          /\ Len(files[f].content) > LOG_HEADER_SIZE

\* the keydir entry of key points at the bytes of value in a value record
\* of key in content
PointsAtValue(content, key, entry, value) ==
    LET record == entry[1] - Len(key) - LOG_HEADER_SIZE
    IN /\ record >= 0
       /\ entry[2] = Len(value)
       /\ entry[1] + entry[2] <= Len(content)
       /\ SubSeq(content, record + 1, entry[1] + entry[2])
              = to_be_bytes(Len(key), 4) \o to_be_bytes(Len(value), 4) \o key \o value

(***************************************************************************)
(* C13  Compaction preserves state: get and scan return right after a      *)
(* compaction what they returned right before it, and every entry of the   *)
(* keydir points at the value bytes of its key in the new log file.        *)
(***************************************************************************)
C13_CompactionPreserves ==
    [][\A e \in Engines :
          (disk[e].pc = "compacting" /\ disk'[e].pc = "ready" /\ dlast'.result = "Ok")
          => LET before == DiskScanAll(e)
                 after == DiskScanAll(e)'
             IN /\ \A k \in ProbeDiskKeys : DiskGet(e, k)' = DiskGet(e, k)
                /\ ~after.panic /\ ~after.failed
                /\ after = before
                /\ disk'[e].fd = disk[e].nfd
                /\ \A k \in DOMAIN disk'[e].keydir :
                      PointsAtValue(files'[disk'[e].fd].content, k,
                                    disk'[e].keydir[k], DiskGet(e, k).value[1])]_vars

\* a compaction has succeeded on a log of two records that left one live
\* pair, and the pair is read from the new file
C13_Witness ==
    /\ dlast.op = "compact"
    /\ dlast.result = "Ok"
    /\ dcount.writes = 2
    /\ DOMAIN disk[dlast.eng].keydir = {<<97>>}
    /\ DiskGet(dlast.eng, <<97>>) = Result("Ok", Some(<<7>>))

RECURSIVE ValueRecords(_, _)
\* the value records of the keys, in their order, with the values of mem
ValueRecords(keys, mem) ==
    IF keys = <<>> THEN <<>>
    ELSE to_be_bytes(Len(keys[1]), 4) \o to_be_bytes(Len(mem[keys[1]]), 4)
             \o keys[1] \o mem[keys[1]]
             \o ValueRecords(Tail(keys), mem)

\* the mapping of disk engine e: each key of its keydir with its value
DiskMapping(e) == [k \in DOMAIN disk[e].keydir |-> DiskGet(e, k).value[1]]

(***************************************************************************)
(* C14  Compacted file content: right after a compaction the file at the   *)
(* engine's path is its log and holds exactly one value record per live    *)
(* key, in ascending key order, and nothing else; build_keydir of that     *)
(* file yields the keydir the engine holds.                                *)
(***************************************************************************)
C14_CompactedFile ==
    (dlast.op = "compact" /\ dlast.result = "Ok") =>
        LET e == dlast.eng
            content == files[disk[e].fd].content
        IN /\ paths[disk[e].path] = disk[e].fd
           /\ content = ValueRecords(SortedKeys(DOMAIN disk[e].keydir), DiskMapping(e))
           /\ build_keydir(content) = [tag |-> "Ok", keydir |-> disk[e].keydir]

(***************************************************************************)
(* C15  Exclusive file lock: at no time are two engines open on the same   *)
(* path, an open on the path of an open engine failing with an error,      *)
(* during and after a compaction as well.                                  *)
(***************************************************************************)
C15_ExclusiveLock ==
    \A e1 \in Ready, e2 \in Ready :
        e1 # e2 => disk[e1].path # disk[e2].path

\* the same while no compaction has run
C15_ExclusiveLockNoCompaction ==
    dcount.compacts = 0 => C15_ExclusiveLock

(***************************************************************************)
(* The key codec applied to MVCC keys: encode, and decode of the encoding. *)
(***************************************************************************)
\* the byte strings and the versions of the keys handed to the codec
CodecMaxLen == 2
CodecByteValues == {0, 97, 255}
CodecStrings == UNION {[1..n -> CodecByteValues] : n \in 0..CodecMaxLen}
CodecVersions == {0, 1, 255, 256, U64_MAX}

CodecKeys ==
    {NextVersionKey}
        \cup {TxnActiveKey(v) : v \in CodecVersions}
        \cup {TxnWriteKey(v, k) : v \in CodecVersions, k \in CodecStrings}
        \cup {VersionKey(k, v) : k \in CodecStrings, v \in CodecVersions}

\* two keys are given; nothing else runs
InitCodec ==
    /\ engine = EmptyEngine
    /\ txns = <<>>
    /\ status = <<>>
    /\ hist = <<>>
    /\ ended = <<>>
    /\ last = Call("new", 0, <<>>, <<>>, Result("Ok", <<>>))
    /\ panicked = FALSE
    /\ ops = 0
    /\ DiskInit
    /\ ThreadInit
    /\ probe \in {[op |-> "none", a |-> a, b |-> b, out |-> <<>>] :
                     a \in CodecKeys, b \in CodecKeys}

\* MvccKey::decode(key.encode()) of the first key
RoundTrip ==
    /\ probe.op = "none"
    /\ probe' = [probe EXCEPT !.op = "decode", !.out = decode(encode(probe.a))]
    /\ UNCHANGED <<mvccVars, diskVars, threadVars>>

\* MvccKey::encode of both keys
Compare ==
    /\ probe.op = "none"
    /\ probe' = [probe EXCEPT !.op = "encode",
                              !.out = <<encode(probe.a), encode(probe.b)>>]
    /\ UNCHANGED <<mvccVars, diskVars, threadVars>>

NextCodec == RoundTrip \/ Compare

SpecCodec == InitCodec /\ [][NextCodec]_vars

(***************************************************************************)
(* C16  Codec round-trip: decode(encode(k)) = k for every key k of the     *)
(* four shapes, with byte strings that hold 0x00 and 0xFF bytes and the    *)
(* empty string, and versions up to u64::MAX.                              *)
(***************************************************************************)
C16_RoundTrip == probe.op = "decode" => probe.out = probe.a

\* a key whose byte string holds a 0x00 and a 0xFF byte has been decoded
C16_Witness ==
    /\ probe.op = "decode"
    /\ probe.a.variant = "Version"
    /\ probe.a.key = <<0, 255>>
    /\ probe.a.version = U64_MAX
    /\ probe.out.variant = "Version"

\* the order of u64, u64::MAX being the greatest
u64_less(x, y) ==
    IF x = U64_MAX THEN FALSE ELSE IF y = U64_MAX THEN TRUE ELSE x < y

\* the index of the variant of a key in the declaration of MvccKey
VariantIndex(key) ==
    CASE key.variant = "NextVersion" -> 0
      [] key.variant = "TxnActive" -> 1
      [] key.variant = "TxnWrite" -> 2
      [] key.variant = "Version" -> 3

\* the tuple order of two keys of the same variant: field by field, byte
\* strings lexicographically and versions numerically
KeyLess(a, b) ==
    CASE a.variant = "NextVersion" -> FALSE
      [] a.variant = "TxnActive" -> u64_less(a.version, b.version)
      [] a.variant = "TxnWrite" ->
            \/ u64_less(a.version, b.version)
            \/ a.version = b.version /\ LexLess(a.key, b.key)
      [] a.variant = "Version" ->
            \/ LexLess(a.key, b.key)
            \/ a.key = b.key /\ u64_less(a.version, b.version)

(***************************************************************************)
(* C17  Order-preserving codec: for two keys of the same variant the       *)
(* encoding of one is lexicographically smaller than that of the other     *)
(* exactly when the key precedes the other in the tuple order; the keys    *)
(* of another variant sort before or after all keys of a variant, so the   *)
(* Version records of one key are contiguous and ascend by version.        *)
(***************************************************************************)
C17_OrderPreserving ==
    probe.op = "encode" =>
        IF probe.a.variant = probe.b.variant
        THEN LexLess(probe.out[1], probe.out[2]) <=> KeyLess(probe.a, probe.b)
        ELSE LexLess(probe.out[1], probe.out[2])
                 <=> VariantIndex(probe.a) < VariantIndex(probe.b)

\* two Version keys have been encoded, the key of the first a proper prefix
\* of the key of the second and its version the greater
C17_Witness ==
    /\ probe.op = "encode"
    /\ probe.a.variant = "Version"
    /\ probe.b.variant = "Version"
    /\ probe.a.key = <<0>>
    /\ probe.b.key = <<0, 0>>
    /\ probe.a.version = 256
    /\ probe.b.version = 1
    /\ LexLess(probe.out[1], probe.out[2])

(***************************************************************************)
(* The iterators of the engines: a scan consumed from both ends.          *)
(***************************************************************************)
MaxMoves == 3

\* btree_map::Range over the pairs of a scan: what is left lies between
\* the two ends
Iter(items) == [items |-> items, front |-> 1, back |-> Len(items)]

\* MemoryEngineIterator::next, DiskEngineIterator::next
Iter_next(it) ==
    IF it.front > it.back THEN [item |-> None, it |-> it]
    ELSE [item |-> Some(it.items[it.front]), it |-> [it EXCEPT !.front = @ + 1]]

\* MemoryEngineIterator::next_back, DiskEngineIterator::next_back
Iter_next_back(it) ==
    IF it.front > it.back THEN [item |-> None, it |-> it]
    ELSE [item |-> Some(it.items[it.back]), it |-> [it EXCEPT !.back = @ - 1]]

RECURSIVE Consume(_, _)
\* what a sequence of next and next_back calls yields
Consume(it, moves) ==
    IF moves = <<>> THEN <<>>
    ELSE LET r == IF Head(moves) = "next" THEN Iter_next(it) ELSE Iter_next_back(it)
         IN <<r.item>> \o Consume(r.it, Tail(moves))

Moves == UNION {[1..n -> {"next", "next_back"}] : n \in 1..MaxMoves}

\* the bounds of the ranges scanned
ProbeBounds ==
    {Unbounded} \cup {Included(k) : k \in ProbeDiskKeys}
                \cup {Excluded(k) : k \in ProbeDiskKeys}

\* key k lies in the range from start to end
Contains(start, end, k) ==
    /\ start.kind = "Included" => LexLeq(start.key, k)
    /\ start.kind = "Excluded" => LexLess(start.key, k)
    /\ end.kind = "Included" => LexLeq(k, end.key)
    /\ end.kind = "Excluded" => LexLess(k, end.key)

\* a range no key can lie in because its start is beyond its end
Inverted(start, end) ==
    /\ start.kind # "Unbounded"
    /\ end.kind # "Unbounded"
    /\ \/ LexLess(end.key, start.key)
       \/ start.key = end.key /\ start.kind = "Excluded" /\ end.kind = "Excluded"

\* the scan returned the pairs of mapping mem in the range, each once,
\* ascending by next and descending by next_back, and no pair twice
\* whichever ends they are taken from
OrderedScan(found, mem, start, end) ==
    LET items == found.items
        n == Len(items)
        live == {<<k, mem[k]>> : k \in {x \in DOMAIN mem : Contains(start, end, x)}}
        forward == Consume(Iter(items), [i \in 1..n + 1 |-> "next"])
        backward == Consume(Iter(items), [i \in 1..n + 1 |-> "next_back"])
    IN /\ ~found.panic
       /\ {items[i] : i \in 1..n} = live
       /\ n = Cardinality(live)
       /\ \A i \in 1..n : forward[i] = Some(items[i])
       /\ forward[n + 1] = None
       /\ \A i \in 1..n, j \in 1..n : i < j => LexLess(forward[i][1][1], forward[j][1][1])
       /\ \A i \in 1..n, j \in 1..n : i < j => LexLess(backward[j][1][1], backward[i][1][1])
       /\ {backward[i] : i \in 1..n} = {forward[i] : i \in 1..n}
       /\ backward[n + 1] = None
       /\ \A moves \in Moves :
              LET out == Consume(Iter(items), moves)
              IN \A i \in 1..Len(out), j \in 1..Len(out) :
                     (i # j /\ out[i] # None) => out[i] # out[j]

\* the scans of the memory engine and of disk engine e over a range
ScansOrdered(e, start, end) ==
    LET mem == applied[disk[e].fd].mem
        found == Disk_scan(disk[e].keydir, files[disk[e].fd].content, start, end)
    IN /\ OrderedScan(Engine_scan(mem, start, end), mem, start, end)
       /\ ~found.failed
       /\ OrderedScan(found, mem, start, end)

(***************************************************************************)
(* C18  Ordered bidirectional scan: for the memory and the disk engine and *)
(* for every range, scan yields exactly the live pairs whose key is in     *)
(* the range, each once, ascending by next and descending by next_back,    *)
(* and no pair twice when next and next_back are mixed.                    *)
(***************************************************************************)
C18_OrderedScan ==
    \A e \in Engines :
        (disk[e].pc = "ready" /\ applied[disk[e].fd].pure) =>
            \A start \in ProbeBounds, end \in ProbeBounds :
                ScansOrdered(e, start, end)

\* the same for the ranges whose start is not beyond their end
C18_OrderedScanProper ==
    \A e \in Engines :
        (disk[e].pc = "ready" /\ applied[disk[e].fd].pure) =>
            \A start \in ProbeBounds, end \in ProbeBounds :
                ~Inverted(start, end) => ScansOrdered(e, start, end)

\* an engine holds two live pairs, so a scan has two ends
C18_ProperWitness ==
    \E e \in Engines :
        /\ disk[e].pc = "ready"
        /\ applied[disk[e].fd].pure
        /\ Len(DiskScanAll(e).items) = 2

(***************************************************************************)
(* The memory engine called directly: set, delete and scan_prefix.        *)
(***************************************************************************)
MaxMemOps == 4
MemKeys == {<<97>>, <<97, 255>>, <<98>>, <<96, 255>>, <<255>>}
MemValues == {<<7>>, <<>>}
MemPrefixes == {<<>>, <<97>>, <<96>>, <<97, 254>>, <<255>>, <<97, 255>>}

\* Engine::scan_prefix built without overflow checks: *last += 1 wraps
Engine_scan_prefix_wrapping(data, prefix) ==
    IF prefix = <<>> THEN Engine_scan(data, Included(prefix), Excluded(prefix))
    ELSE Engine_scan(data, Included(prefix),
                     Excluded([prefix EXCEPT ![Len(prefix)] = (@ + 1) % 256]))

\* a call of the memory engine, within the bound on the number of calls
MemCalled(op, a, b, out) ==
    /\ ops < MaxMemOps
    /\ ops' = ops + 1
    /\ probe' = [op |-> op, a |-> a, b |-> b, out |-> out]
    /\ UNCHANGED <<txns, status, hist, ended, last, panicked, diskVars, threadVars>>

\* MemoryEngine::set
MemSet(k, v) ==
    /\ engine' = Engine_set(engine, k, v)
    /\ MemCalled("set", k, v, ScanItems(<<>>))

\* MemoryEngine::delete
MemDelete(k) ==
    /\ engine' = Engine_delete(engine, k)
    /\ MemCalled("delete", k, <<>>, ScanItems(<<>>))

\* Engine::scan_prefix of the memory engine, the iterator consumed; the
\* build has overflow checks or has none
MemScanPrefix(p) ==
    /\ engine' = engine
    /\ \E checks \in BOOLEAN :
           MemCalled("scan_prefix", p, <<>>,
                     IF checks THEN Engine_scan_prefix(engine, p)
                     ELSE Engine_scan_prefix_wrapping(engine, p))

NextMem ==
    \/ \E k \in MemKeys, v \in MemValues : MemSet(k, v)
    \/ \E k \in MemKeys : MemDelete(k)
    \/ \E p \in MemPrefixes : MemScanPrefix(p)

SpecMem == Init /\ [][NextMem]_vars

\* prefix p with its last byte incremented by one
succ(p) == [p EXCEPT ![Len(p)] = @ + 1]

(***************************************************************************)
(* C19  Engine prefix scan: for a non-empty prefix p whose last byte is    *)
(* less than 0xFF, scan_prefix(p) equals the scan of [p, succ(p)) and      *)
(* yields exactly the live pairs whose key has the prefix p, ascending.    *)
(***************************************************************************)
C19_PrefixScan ==
    (/\ probe.op = "scan_prefix"
     /\ probe.a # <<>>
     /\ probe.a[Len(probe.a)] < 255) =>
        LET items == probe.out.items
            n == Len(items)
        IN /\ probe.out = Engine_scan(engine, Included(probe.a), Excluded(succ(probe.a)))
           /\ ~probe.out.panic
           /\ {items[i] : i \in 1..n}
                  = {<<k, engine[k]>> : k \in {x \in DOMAIN engine : IsPrefix(probe.a, x)}}
           /\ \A i \in 1..n, j \in 1..n : i < j => LexLess(items[i][1], items[j][1])

\* the prefix 0x61 has been scanned in an engine that holds the key 0x61,
\* a longer key with that prefix, and the key 0x62 the range ends at
C19_Witness ==
    /\ probe.op = "scan_prefix"
    /\ probe.a = <<97>>
    /\ DOMAIN engine = {<<97>>, <<97, 255>>, <<98>>}
    /\ Len(probe.out.items) = 2

(***************************************************************************)
(* C20  Prefix-scan overflow: when the last byte of the prefix p is 0xFF,  *)
(* scan_prefix(p) scans from p to the end of the key space: it returns     *)
(* every live pair whose key is at or after p, and it does not fail or     *)
(* panic nor return an empty or wrapped-around range.                      *)
(***************************************************************************)
C20_PrefixScanOverflow ==
    (/\ probe.op = "scan_prefix"
     /\ probe.a # <<>>
     /\ probe.a[Len(probe.a)] = 255) =>
        /\ ~probe.out.panic
        /\ probe.out = Engine_scan(engine, Included(probe.a), Unbounded)

(***************************************************************************)
(* C21  Point operations behave as a map, for the disk engine and for the  *)
(* memory engine given the same calls: right after set(k, v) get(k) is v,  *)
(* right after delete(k) get(k) is None, neither call fails nor changes    *)
(* what get returns for another key; so a delete of a key that is not      *)
(* present changes the value of no key.                                    *)
(***************************************************************************)
C21_PointOperations ==
    [][\A e \in Engines, k \in DiskKeys :
          LET mem == applied[disk[e].fd].mem
              others ==
                  \A j \in ProbeDiskKeys \ {k} :
                      /\ DiskGet(e, j)' = DiskGet(e, j)
                      /\ Engine_get(mem, j)' = Engine_get(mem, j)
          IN /\ \A v \in DiskValues :
                    DSet(e, k, v) =>
                        /\ dlast'.result = "Ok"
                        /\ DiskGet(e, k)' = Result("Ok", Some(v))
                        /\ Engine_get(mem, k)' = Some(v)
                        /\ others
             /\ DDelete(e, k) =>
                    /\ dlast'.result = "Ok"
                    /\ DiskGet(e, k)' = Result("Ok", None)
                    /\ Engine_get(mem, k)' = None
                    /\ others]_vars

\* the empty key, which was not present, has been deleted in an engine that
\* holds one pair: the log holds the record of the pair and the tombstone
C21_Witness ==
    /\ dlast.op = "delete"
    /\ dlast.result = "Ok"
    /\ DOMAIN disk[dlast.eng].keydir = {<<97>>}
    /\ DiskGet(dlast.eng, <<97>>) = Result("Ok", Some(<<7>>))
    /\ Len(files[disk[dlast.eng].fd].content) = 2 * LOG_HEADER_SIZE + 2

(***************************************************************************)
(* A writer that crashes inside write_entry: part of the record reaches    *)
(* the file, and the file is opened again.                                 *)
(***************************************************************************)
TornKeys == {<<>>, <<97>>}
TornValues == {<<7, 8>>}

\* DiskEngine::set whose process dies inside Log::write_entry after n bytes
\* of the record have reached the file: the record is cut, the File is
\* closed and its lock released
DTornSet(e, key, value, n) ==
    /\ disk[e].pc = "ready"
    /\ dcount.writes < MaxWrites
    /\ LET f == disk[e].fd
           record == write_entry(<<>>, key, Some(value))
       IN /\ n \in 1..record.size - 1
          /\ files' = [files EXCEPT ![f].content = @ \o SubSeq(record.content, 1, n),
                                    ![f].lock = NoLock]
          /\ applied' = [applied EXCEPT ![f].pure = FALSE]
    /\ disk' = [disk EXCEPT ![e] = Closed]
    /\ dcount' = [dcount EXCEPT !.writes = @ + 1]
    /\ DStep("crash", e, "Err")
    /\ UNCHANGED paths

\* One process with its log at one path, which may die while it writes.
NextDiskTorn ==
    \/ DNew(1, "db.log")
    \/ DLock(1)
    \/ \E key \in DiskKeys, value \in DiskValues : DSet(1, key, value)
    \/ \E key \in DiskKeys : DDelete(1, key)
    \/ \E key \in TornKeys, value \in TornValues, n \in 1..LOG_HEADER_SIZE + 3 :
           DTornSet(1, key, value, n)
    \/ DDrop(1)

SpecDiskTorn == Init /\ [][NextDiskTorn]_vars

RECURSIVE TornFrom(_, _)
\* the content ends inside the record that starts at offset or inside a
\* later one: inside the header, the key or the value
TornFrom(content, offset) ==
    IF offset >= Len(content) THEN FALSE
    ELSE IF offset + LOG_HEADER_SIZE > Len(content) THEN TRUE
    ELSE LET key_size == from_be_bytes(SubSeq(content, offset + 1, offset + 4))
             value_size == i32_from_be_bytes(SubSeq(content, offset + 5, offset + 8))
             size == LOG_HEADER_SIZE + key_size + (IF value_size = -1 THEN 0 ELSE value_size)
         IN IF offset + size > Len(content) THEN TRUE
            ELSE TornFrom(content, offset + size)

Torn(content) == TornFrom(content, 0)

(***************************************************************************)
(* C22  Truncated tail is fatal at open: when the log ends inside a        *)
(* record (its header, its key or its value) the open of the engine fails; *)
(* no engine is open with a keydir entry whose value bytes lie partly or   *)
(* wholly beyond the end of the file.                                      *)
(***************************************************************************)
C22_TruncatedTailFatal ==
    \A e \in Engines :
        disk[e].pc = "ready" =>
            LET content == files[disk[e].fd].content
                keydir == disk[e].keydir
            IN /\ (dlast.op = "new" /\ dlast.eng = e) => ~Torn(content)
               /\ \A k \in DOMAIN keydir : keydir[k][1] + keydir[k][2] <= Len(content)

RECURSIVE TornHeadFrom(_, _)
\* the content ends inside the header or the key of a record
TornHeadFrom(content, offset) ==
    IF offset >= Len(content) THEN FALSE
    ELSE IF offset + LOG_HEADER_SIZE > Len(content) THEN TRUE
    ELSE LET key_size == from_be_bytes(SubSeq(content, offset + 1, offset + 4))
             value_size == i32_from_be_bytes(SubSeq(content, offset + 5, offset + 8))
             size == LOG_HEADER_SIZE + key_size + (IF value_size = -1 THEN 0 ELSE value_size)
         IN IF offset + LOG_HEADER_SIZE + key_size > Len(content) THEN TRUE
            ELSE TornHeadFrom(content, offset + size)

\* no engine has been opened on a log that ends inside a header or a key
C22_TruncatedHeaderOrKeyFatal ==
    \A e \in Engines :
        (disk[e].pc = "ready" /\ dlast.op = "new" /\ dlast.eng = e) =>
            ~TornHeadFrom(files[disk[e].fd].content, 0)

\* an open has failed on a log that ends inside the key of its last record
C22_HeaderOrKeyWitness ==
    /\ dlast.op = "new"
    /\ dlast.result = "Err"
    /\ \E f \in 1..Len(files) :
           /\ Len(files[f].content) > LOG_HEADER_SIZE
           /\ TornHeadFrom(files[f].content, 0)

(***************************************************************************)
(* Versions and active sets of the MVCC transactions.                      *)
(***************************************************************************)
\* the NextVersion the store holds, None when it holds none
StoredNextVersion ==
    LET stored == Engine_get(engine, encode(NextVersionKey))
    IN IF stored = None THEN None ELSE Some(bincode_deserialize_u64(stored[1]))

(***************************************************************************)
(* C23  Version assignment: the first begin on an empty store returns      *)
(* version 1, every begin returns a version greater than that of every     *)
(* earlier begin and leaves NextVersion at its version plus one, and no    *)
(* other call changes NextVersion.                                         *)
(***************************************************************************)
C23_VersionAssignment ==
    [][IF last'.op = "begin"
       THEN /\ last'.result.tag = "Ok"
            /\ LET v == last'.result.value.version
               IN /\ engine = EmptyEngine => v = 1
                  /\ \A t \in 1..Len(txns) : txns[t].version < v
                  /\ StoredNextVersion' = Some(v + 1)
       ELSE StoredNextVersion' = StoredNextVersion]_vars

\* a third transaction has begun after one committed and one rolled back
C23_Witness ==
    /\ last.op = "begin"
    /\ last.result.tag = "Ok"
    /\ last.result.value.version = 3
    /\ \E t \in Handles : status[t] = "Committed"
    /\ \E t \in Handles : status[t] = "RolledBack"

\* the versions of the transactions that have begun and have neither
\* committed nor rolled back
ActiveVersions == {txns[t].version : t \in {h \in Handles : status[h] = "Active"}}

(***************************************************************************)
(* C24  Active-set snapshot: the active_versions a begin captures are      *)
(* exactly the versions of the transactions begun and not yet committed    *)
(* or rolled back at that moment; the own version is not among them,       *)
(* every member is smaller than the own version, and the set stays as it   *)
(* is for the life of the transaction.                                     *)
(***************************************************************************)
C24_ActiveSetSnapshot ==
    [][/\ last'.op = "begin" =>
              LET state == last'.result.value
              IN /\ last'.result.tag = "Ok"
                 /\ state.active_versions = ActiveVersions
                 /\ state.version \notin state.active_versions
                 /\ \A a \in state.active_versions : a < state.version
                 /\ txns' = Append(txns, state)
       /\ \A t \in Handles : txns'[t] = txns[t]]_vars

\* a transaction has begun while one transaction was active and another
\* had committed
C24_Witness ==
    /\ last.op = "begin"
    /\ last.result.tag = "Ok"
    /\ last.result.value.version = 3
    /\ last.result.value.active_versions = {2}
    /\ status[1] = "Committed"

(***************************************************************************)
(* The transactions driven from several threads: every MVCC call locks     *)
(* the engine mutex, makes its engine calls one after the other, and       *)
(* drops the guard when it returns.                                        *)
(***************************************************************************)
MaxThreadCalls == 4
ThreadKeys == {<<97>>}
ThreadValues == {<<7>>}
ThreadPrefixes == {<<97>>, <<97, 0>>}

\* a lock that is given whoever holds the mutex
Mutex_lock_unguarded(m, t) == Some(t)

\* Mutex::lock by thread t: the holder once the guard is returned; the call
\* blocks (None) while another thread holds the guard
Mutex_lock(m, t) == IF m = 0 THEN Some(t) ELSE None

\* the TransactionState of the handle thread t holds
StateOf(t) == txns[thread[t].h]

\* the first engine call of an operation
FirstStep(op) ==
    CASE op = "begin" -> "begin_get"
      [] op \in {"set", "delete"} -> "write_scan"
      [] op = "get" -> "get_scan"
      [] op = "scan_prefix" -> "prefix_scan"
      [] op \in {"commit", "rollback"} -> "end_scan"

\* a step of thread t inside its call that leaves the handles as they are
TStep(t, next) ==
    /\ thread' = [thread EXCEPT ![t] = next]
    /\ UNCHANGED <<txns, status, hist, ended, last, panicked, ops, mutex,
                   diskVars, probe>>

\* a thread calls an operation: begin when it holds no handle, else an
\* operation on its handle
TCall(t, op, key, value) ==
    /\ thread[t].pc = "idle"
    /\ ops < MaxThreadCalls
    /\ (op = "begin") = (thread[t].h = 0)
    /\ thread' = [thread EXCEPT ![t] = [@ EXCEPT !.pc = "lock", !.op = op,
                                                   !.key = key, !.value = value]]
    /\ ops' = ops + 1
    /\ UNCHANGED <<engine, txns, status, hist, ended, last, panicked, mutex,
                   diskVars, probe>>

\* self.engine.lock()?: the guard, or the error of a poisoned mutex
TLock(t) ==
    /\ thread[t].pc = "lock"
    /\ IF mutex = Poisoned
       THEN /\ thread' = [thread EXCEPT ![t] = [@ EXCEPT !.pc = "return",
                                                      !.result = Result("Poisoned", <<>>)]]
            /\ UNCHANGED mutex
       ELSE /\ Mutex_lock(mutex, t) # None
            /\ mutex' = Mutex_lock(mutex, t)[1]
            /\ thread' = [thread EXCEPT ![t].pc = FirstStep(thread[t].op)]
    /\ UNCHANGED <<mvccVars, diskVars, probe>>

\* begin: engine.get(NextVersion)
TBeginGet(t) ==
    /\ thread[t].pc = "begin_get"
    /\ LET stored == Engine_get(engine, encode(NextVersionKey))
       IN TStep(t, [thread[t] EXCEPT
                        !.pc = "begin_set",
                        !.version = IF stored = None THEN 1
                                    ELSE bincode_deserialize_u64(stored[1])])
    /\ UNCHANGED engine

\* begin: engine.set(NextVersion, new_version + 1)
TBeginSet(t) ==
    /\ thread[t].pc = "begin_set"
    /\ engine' = Engine_set(engine, encode(NextVersionKey),
                            bincode_serialize_u64(thread[t].version + 1))
    /\ TStep(t, [thread[t] EXCEPT !.pc = "begin_scan"])

\* begin: scan_active
TBeginScan(t) ==
    /\ thread[t].pc = "begin_scan"
    /\ LET active == scan_active(engine)
       IN TStep(t, IF active.tag # "Ok"
                   THEN [thread[t] EXCEPT !.pc = "return",
                                          !.result = Result(active.tag, <<>>)]
                   ELSE [thread[t] EXCEPT !.pc = "begin_active",
                                          !.active = active.versions])
    /\ UNCHANGED engine

\* begin: engine.set(TxnActive(new_version))
TBeginActive(t) ==
    /\ thread[t].pc = "begin_active"
    /\ engine' = Engine_set(engine, encode(TxnActiveKey(thread[t].version)), <<>>)
    /\ TStep(t, [thread[t] EXCEPT
                     !.pc = "return",
                     !.result = Result("Ok", [version |-> thread[t].version,
                                              active_versions |-> thread[t].active])])

\* write_inner: the conflict scan and the check of its last element
TWriteScan(t) ==
    /\ thread[t].pc = "write_scan"
    /\ LET verdict == write_inner(engine, StateOf(t), thread[t].key, None).result
       IN TStep(t, IF verdict.tag # "Ok"
                   THEN [thread[t] EXCEPT !.pc = "return", !.result = verdict]
                   ELSE [thread[t] EXCEPT !.pc = "write_txnwrite"])
    /\ UNCHANGED engine

\* write_inner: engine.set(TxnWrite(version, key))
TWriteTxnWrite(t) ==
    /\ thread[t].pc = "write_txnwrite"
    /\ engine' = Engine_set(engine,
                            encode(TxnWriteKey(StateOf(t).version, thread[t].key)), <<>>)
    /\ TStep(t, [thread[t] EXCEPT !.pc = "write_version"])

\* write_inner: engine.set(Version(key, version), value)
TWriteVersion(t) ==
    /\ thread[t].pc = "write_version"
    /\ engine' = Engine_set(engine,
                            encode(VersionKey(thread[t].key, StateOf(t).version)),
                            bincode_serialize_option(
                                IF thread[t].op = "set" THEN Some(thread[t].value)
                                ELSE None))
    /\ TStep(t, [thread[t] EXCEPT !.pc = "return", !.result = Result("Ok", <<>>)])

\* get: its scan, read to the first visible version
TGetScan(t) ==
    /\ thread[t].pc = "get_scan"
    /\ TStep(t, [thread[t] EXCEPT !.pc = "return",
                                  !.result = get(engine, StateOf(t), thread[t].key)])
    /\ UNCHANGED engine

\* scan_prefix: its scan, read to the end
TPrefixScan(t) ==
    /\ thread[t].pc = "prefix_scan"
    /\ TStep(t, [thread[t] EXCEPT
                     !.pc = "return",
                     !.result = scan_prefix(engine, StateOf(t), thread[t].key)])
    /\ UNCHANGED engine

\* commit and rollback: the scan of the TxnWrite records into delete_keys
TEndScan(t) ==
    /\ thread[t].pc = "end_scan"
    /\ LET version == StateOf(t).version
           scan == Engine_scan_prefix(engine, encode_prefix(TxnWritePrefix(version)))
           items == scan.items
           failed == IF scan.panic THEN "Panic"
                     ELSE IF thread[t].op = "rollback"
                          THEN decode_all(items, "TxnWrite") ELSE "Ok"
       IN TStep(t, IF failed # "Ok"
                   THEN [thread[t] EXCEPT !.pc = "return",
                                          !.result = Result(failed, <<>>)]
                   ELSE [thread[t] EXCEPT
                            !.pc = "end_delete",
                            !.keys = IF thread[t].op = "rollback"
                                     THEN rollback_keys(items, version)
                                     ELSE [i \in 1..Len(items) |-> items[i][1]]])
    /\ UNCHANGED engine

\* commit and rollback: engine.delete of the next of delete_keys
TEndDelete(t) ==
    /\ thread[t].pc = "end_delete"
    /\ thread[t].keys # <<>>
    /\ engine' = Engine_delete(engine, Head(thread[t].keys))
    /\ TStep(t, [thread[t] EXCEPT !.keys = Tail(@)])

\* commit and rollback: engine.delete(TxnActive(version))
TEndActive(t) ==
    /\ thread[t].pc = "end_delete"
    /\ thread[t].keys = <<>>
    /\ engine' = Engine_delete(engine, encode(TxnActiveKey(StateOf(t).version)))
    /\ TStep(t, [thread[t] EXCEPT !.pc = "return", !.result = Result("Ok", <<>>)])

\* the call returns: the guard is dropped (the mutex is poisoned when the
\* thread unwinds from a panic with the guard), and the caller has the
\* result
TReturn(t) ==
    /\ thread[t].pc = "return"
    /\ LET op == thread[t].op
           result == thread[t].result
           h == IF op = "begin" /\ result.tag = "Ok" THEN Len(txns) + 1
                ELSE thread[t].h
           ok == result.tag = "Ok"
       IN /\ mutex' = IF result.tag = "Poisoned" THEN mutex
                      ELSE IF result.tag = "Panic" THEN Poisoned ELSE 0
          /\ last' = Call(op, h, thread[t].key, thread[t].value, result)
          /\ IF op = "begin" /\ ok
             THEN /\ txns' = Append(txns, result.value)
                  /\ status' = Append(status, "Active")
                  /\ hist' = Append(hist, [k \in UserKeys |-> NoHistory])
                  /\ ended' = Append(ended, Handles \ Live)
             ELSE /\ UNCHANGED <<txns, ended>>
                  /\ status' = IF op \in {"commit", "rollback"} /\ ok
                               THEN [status EXCEPT ![h] = IF op = "commit"
                                                          THEN "Committed"
                                                          ELSE "RolledBack"]
                               ELSE status
                  /\ hist' = IF op \in {"set", "delete"}
                             THEN [hist EXCEPT ![h][thread[t].key] =
                                      [attempt |-> result.tag,
                                       payload |->
                                          IF ~ok THEN @.payload
                                          ELSE IF op = "set"
                                               THEN <<Some(thread[t].value)>>
                                               ELSE <<None>>,
                                       writes |->
                                          IF ok THEN @.writes + 1 ELSE @.writes]]
                             ELSE hist
          /\ thread' = [thread EXCEPT ![t] =
                           IF result.tag = "Panic"
                           THEN [Idle(0) EXCEPT !.pc = "dead"]
                           ELSE Idle(IF op \in {"commit", "rollback"} /\ ok
                                     THEN 0 ELSE h)]
    /\ UNCHANGED <<engine, panicked, ops, diskVars, probe>>

NextThreads ==
    \/ \E t \in Threads : TCall(t, "begin", <<>>, <<>>)
    \/ \E t \in Threads, key \in ThreadKeys, value \in ThreadValues :
           TCall(t, "set", key, value)
    \/ \E t \in Threads, key \in ThreadKeys : TCall(t, "delete", key, <<>>)
    \/ \E t \in Threads, key \in ThreadKeys : TCall(t, "get", key, <<>>)
    \/ \E t \in Threads, prefix \in ThreadPrefixes : TCall(t, "scan_prefix", prefix, <<>>)
    \/ \E t \in Threads : TCall(t, "commit", <<>>, <<>>)
    \/ \E t \in Threads : TCall(t, "rollback", <<>>, <<>>)
    \/ \E t \in Threads : TLock(t)
    \/ \E t \in Threads : TBeginGet(t)
    \/ \E t \in Threads : TBeginSet(t)
    \/ \E t \in Threads : TBeginScan(t)
    \/ \E t \in Threads : TBeginActive(t)
    \/ \E t \in Threads : TWriteScan(t)
    \/ \E t \in Threads : TWriteTxnWrite(t)
    \/ \E t \in Threads : TWriteVersion(t)
    \/ \E t \in Threads : TGetScan(t)
    \/ \E t \in Threads : TPrefixScan(t)
    \/ \E t \in Threads : TEndScan(t)
    \/ \E t \in Threads : TEndDelete(t)
    \/ \E t \in Threads : TEndActive(t)
    \/ \E t \in Threads : TReturn(t)

SpecThreads == Init /\ [][NextThreads]_vars

\* thread t is between the lock and the return of a call
Inside(t) == thread[t].pc \notin {"idle", "lock", "dead"}
            /\ ~(thread[t].pc = "return" /\ thread[t].result.tag = "Poisoned")

\* thread t is in a begin that has read NextVersion
HasRead(t) ==
    /\ thread[t].op = "begin"
    /\ thread[t].pc \in {"begin_set", "begin_scan", "begin_active", "return"}
    /\ thread[t].result.tag # "Poisoned"

(***************************************************************************)
(* C25  Operation atomicity under the engine mutex: a thread makes the     *)
(* engine calls of an MVCC operation with the mutex held, so no two        *)
(* threads are inside an operation at once; no two begins read the same    *)
(* NextVersion, and of two transactions the later one has the version of   *)
(* the earlier one in its active set when that one had not ended.          *)
(***************************************************************************)
C25_OperationAtomicity ==
    /\ \A t \in Threads : Inside(t) => mutex = t
    /\ \A t1 \in Threads, t2 \in Threads : (Inside(t1) /\ Inside(t2)) => t1 = t2
    /\ \A t1 \in Threads, t2 \in Threads :
           (HasRead(t1) /\ HasRead(t2) /\ t1 # t2) =>
               thread[t1].version # thread[t2].version
    /\ \A t \in Threads, h \in Handles : HasRead(t) => txns[h].version # thread[t].version
    /\ \A i \in Handles, j \in Handles :
           i < j => /\ txns[i].version < txns[j].version
                    /\ i \notin ended[j] => txns[i].version \in txns[j].active_versions

\* a begin waits for the mutex while the begin of another thread is
\* between its engine calls, NextVersion read and not yet stored
C25_Witness ==
    \E t1 \in Threads, t2 \in Threads :
        /\ thread[t1].pc = "begin_set"
        /\ thread[t2].pc = "lock"
        /\ thread[t2].op = "begin"
        /\ mutex = t1

(***************************************************************************)
(* The prefix of the scan over the Version records.                       *)
(***************************************************************************)
\* the engine prefix scan over the truncated encoding of Version(k)
PrefixTrick(k) == Engine_scan_prefix(engine, version_scan_prefix(k))

\* the engine keys that scan yields
Matched(k) == {PrefixTrick(k).items[i][1] : i \in 1..Len(PrefixTrick(k).items)}

\* the engine keys of the Version records of user key k, and of the user
\* keys that begin with k
RecordsOfKey(k) ==
    {x \in DOMAIN engine : decode(x).variant = "Version" /\ decode(x).key = k}
RecordsUnder(k) ==
    {x \in DOMAIN engine : decode(x).variant = "Version" /\ IsPrefix(k, decode(x).key)}

ProbeTrickKeys == ProbeKeys \cup {<<97, 255>>}

(***************************************************************************)
(* C26  Prefix trick exactness: for every user key k the engine prefix     *)
(* scan over the encoding of the prefix Version(k) without its two         *)
(* terminator bytes yields exactly the Version records of that key k      *)
(* and no Version record of another user key.                              *)
(***************************************************************************)
C26_PrefixTrickExact ==
    \A k \in ProbeTrickKeys :
        ~PrefixTrick(k).panic => Matched(k) = RecordsOfKey(k)

(***************************************************************************)
(* C26 as the code has it: the scan yields exactly the Version records of  *)
(* the user keys that have k as a byte prefix, those of k and those of     *)
(* every longer key; it panics when the last byte of k is 0x00 or 0xFF.    *)
(***************************************************************************)
C26_PrefixTrickByPrefix ==
    \A k \in ProbeTrickKeys :
        IF k # <<>> /\ k[Len(k)] \in {0, 255}
        THEN PrefixTrick(k).panic
        ELSE /\ ~PrefixTrick(k).panic
             /\ Matched(k) = RecordsUnder(k)

\* scan_prefix of 0x61 has been called on a store that holds a Version
\* record of the key 0x61 and one of the longer key 0x61 0x00
C26_Witness ==
    /\ last.op = "scan_prefix"
    /\ last.key = <<97>>
    /\ RecordsOfKey(<<97>>) # {}
    /\ RecordsOfKey(<<97, 0>>) # {}
    /\ Matched(<<97>>) = RecordsOfKey(<<97>>) \cup RecordsOfKey(<<97, 0>>)

(***************************************************************************)
(* The writers of one key: transactions that begin, set or delete the      *)
(* key, and commit or roll back, in runs longer than those of Spec.        *)
(***************************************************************************)
MaxWriteOps == 7
WriteKeys == {<<97>>}
WriteValues == {<<7>>}

\* every call of a writer: none after a panic, and the bound on the run
WCalled(maxOps, op, t, key, value, result) ==
    /\ ~panicked
    /\ ops < maxOps
    /\ ops' = ops + 1
    /\ last' = Call(op, t, key, value, result)
    /\ panicked' = (result.tag = "Panic")
    /\ UNCHANGED <<diskVars, probe, threadVars>>

\* Mvcc::begin
WBegin(maxTxn, maxOps) ==
    /\ Len(txns) < maxTxn
    /\ LET out == begin(engine)
       IN /\ engine' = out.data
          /\ IF out.result.tag = "Ok"
             THEN /\ txns' = Append(txns, out.result.value)
                  /\ status' = Append(status, "Active")
                  /\ hist' = Append(hist, [k \in UserKeys |-> NoHistory])
                  /\ ended' = Append(ended, Handles \ Live)
             ELSE UNCHANGED <<txns, status, hist, ended>>
          /\ WCalled(maxOps, "begin", Len(txns'), <<>>, <<>>, out.result)

\* MvccTransaction::set on handle t
WSet(maxOps, t, key, value) ==
    LET out == set(engine, txns[t], key, value)
    IN /\ WCalled(maxOps, "set", t, key, value, out.result)
       /\ engine' = out.data
       /\ Written(t, key, Some(value), out.result)
       /\ UNCHANGED <<txns, status, ended>>

\* MvccTransaction::delete on handle t
WDelete(maxOps, t, key) ==
    LET out == delete(engine, txns[t], key)
    IN /\ WCalled(maxOps, "delete", t, key, <<>>, out.result)
       /\ engine' = out.data
       /\ Written(t, key, None, out.result)
       /\ UNCHANGED <<txns, status, ended>>

\* MvccTransaction::commit on handle t
WCommit(maxOps, t) ==
    LET out == commit(engine, txns[t])
    IN /\ WCalled(maxOps, "commit", t, <<>>, <<>>, out.result)
       /\ engine' = out.data
       /\ Ended(t, "Committed", out.result)
       /\ UNCHANGED <<txns, hist, ended>>

\* MvccTransaction::rollback on handle t
WRollback(maxOps, t) ==
    LET out == rollback(engine, txns[t])
    IN /\ WCalled(maxOps, "rollback", t, <<>>, <<>>, out.result)
       /\ engine' = out.data
       /\ Ended(t, "RolledBack", out.result)
       /\ UNCHANGED <<txns, hist, ended>>

\* the calls of the writers, on at most maxTxn handles in maxOps calls
NextWritesWithin(maxTxn, maxOps) ==
    \/ WBegin(maxTxn, maxOps)
    \/ \E t \in Live, key \in WriteKeys, value \in WriteValues :
          WSet(maxOps, t, key, value)
    \/ \E t \in Live, key \in WriteKeys : WDelete(maxOps, t, key)
    \/ \E t \in Live : WCommit(maxOps, t)
    \/ \E t \in Live : WRollback(maxOps, t)

NextWrites == NextWritesWithin(MaxTxn, MaxWriteOps)

SpecWrites == Init /\ [][NextWrites]_vars


\* the Version records of key k that the conflict scan of handle t covers
ConflictRange(t, k) ==
    {r \in VersionRecords(engine) :
        r.key = k /\ r.version >= write_lo(txns[t])}

\* the versions the conflict scan of handle t on key k yields, in its order
ConflictScan(t, k) ==
    LET scan == Engine_scan(engine,
                    Included(encode(VersionKey(k, write_lo(txns[t])))),
                    Included(encode(VersionKey(k, U64_MAX))))
    IN [i \in 1..Len(scan.items) |-> decode(scan.items[i][1]).version]

(***************************************************************************)
(* C27  Greatest-version check suffices: for every handle T and key k, if  *)
(* some record Version(k, w) with w >= lo is invisible to T, the record    *)
(* with the greatest such w is invisible to T; the conflict scan yields    *)
(* exactly these records in ascending order, and write_inner, which looks  *)
(* at the last element only, fails with WriteConflict exactly when some    *)
(* element of the scan is invisible to T.                                  *)
(***************************************************************************)
C27_GreatestVersionSuffices ==
    \A t \in Handles, k \in ProbeKeys :
        LET range == ConflictRange(t, k)
            versions == ConflictScan(t, k)
        IN /\ (\E r \in range : ~is_visible(txns[t], r.version)) =>
                 \A r \in range :
                    (\A q \in range : q.version <= r.version) =>
                        ~is_visible(txns[t], r.version)
           /\ {versions[i] : i \in 1..Len(versions)}
                 = {r.version : r \in range}
           /\ \A i \in 1..Len(versions), j \in 1..Len(versions) :
                 i < j => versions[i] < versions[j]
           /\ (\E i \in 1..Len(versions) : ~is_visible(txns[t], versions[i]))
                 <=> (write_inner(engine, txns[t], k, None).result.tag
                         = "WriteConflict")

\* a live transaction's write has just failed with WriteConflict on a scan
\* of two records, both invisible to it: one of a transaction active at its
\* begin, one of a transaction begun later
C27_Witness ==
    /\ last.op \in {"set", "delete"}
    /\ last.result.tag = "WriteConflict"
    /\ last.txn \in Live
    /\ \E r \in ConflictRange(last.txn, last.key),
          q \in ConflictRange(last.txn, last.key) :
          /\ r.version \in txns[last.txn].active_versions
          /\ q.version > txns[last.txn].version

\* a scan of two records of which the lower is visible and the greater is
\* not: the transaction's own committed write below a later writer's
C27_MixedWitness ==
    \E t \in Handles, k \in UserKeys :
        \E r \in ConflictRange(t, k), q \in ConflictRange(t, k) :
            /\ r.version < q.version
            /\ is_visible(txns[t], r.version)
            /\ ~is_visible(txns[t], q.version)


\* the key record of every stored key
Decoded(data) == [x \in DOMAIN data |-> decode(x)]

\* the stored keys that decode to the key record k
StoredAs(keys, k) == {x \in DOMAIN keys : keys[x] = k}

\* the store holds exactly one Version(k, version) record of the transaction
\* of state, with the given payload
OwnVersionStored(data, keys, state, k, payload) ==
    /\ Cardinality(StoredAs(keys, VersionKey(k, state.version))) = 1
    /\ \A x \in StoredAs(keys, VersionKey(k, state.version)) :
          bincode_deserialize_option(data[x]) = payload

\* the store holds exactly one TxnWrite(version, k) record of the
\* transaction of state
OwnMarkerStored(data, keys, state, k) ==
    /\ Cardinality(StoredAs(keys, TxnWriteKey(state.version, k))) = 1
    /\ \A x \in StoredAs(keys, TxnWriteKey(state.version, k)) : data[x] = <<>>

\* the records of every handle that has written a key: the Version record
\* until the handle rolls back, the TxnWrite record while it is active
OwnWritesStored(data, keys, handles, states, how, written) ==
    \A t \in handles, k \in UserKeys :
        written[t][k].writes > 0
          => /\ how[t] # "RolledBack"
                  => OwnVersionStored(data, keys, states[t], k,
                                      written[t][k].payload[1])
             /\ how[t] = "Active"
                  => OwnMarkerStored(data, keys, states[t], k)

(***************************************************************************)
(* C28  Same-key rewrite inside one transaction: however many times a      *)
(* transaction T sets or deletes key k, after each of its writes the store *)
(* holds exactly one Version(k, T.version) record, carrying the payload of *)
(* T's last write to k, and exactly one TxnWrite(T.version, k) record; a   *)
(* set or delete by T of a key T has written before returns Ok, never      *)
(* WriteConflict.  The Version record stays as written until T rolls back,  *)
(* the TxnWrite record until T commits or rolls back.                      *)
(***************************************************************************)
C28_SameKeyRewrite ==
    [][/\ \A t \in Handles, k \in UserKeys :
             (last'.op \in {"set", "delete"} /\ last'.txn = t /\ last'.key = k
                 /\ hist[t][k].writes > 0)
               => /\ last'.result.tag = "Ok"
                  /\ hist'[t][k].writes = hist[t][k].writes + 1
                  /\ hist'[t][k].payload
                        = IF last'.op = "set" THEN <<Some(last'.value)>>
                          ELSE <<None>>
       /\ OwnWritesStored(engine', Decoded(engine'), 1..Len(txns'), txns',
                          status', hist')
      ]_vars

\* a transaction has written one key three times, the last write a set
\* over its own tombstone, while a second transaction is active
C28_Witness ==
    /\ last.op = "set"
    /\ last.result.tag = "Ok"
    /\ last.txn \in Live
    /\ hist[last.txn][last.key].writes >= 3
    /\ Cardinality(Live) >= 2
    /\ OwnWritesStored(engine, Decoded(engine), Handles, txns, status, hist)

(***************************************************************************)
(* The decoder on raw input: a byte string is given as the bytes of a      *)
(* byte string field, and is decoded alone, as the field of a Version key  *)
(* and as the field of a TxnWrite key.                                     *)
(***************************************************************************)
DecodeMaxLen == 4
DecodeByteValues == {0, 1, 97, 255}
DecodeInputs == UNION {[1..n -> DecodeByteValues] : n \in 0..DecodeMaxLen}

\* an input is given; nothing else runs
InitDecode ==
    /\ engine = EmptyEngine
    /\ txns = <<>>
    /\ status = <<>>
    /\ hist = <<>>
    /\ ended = <<>>
    /\ last = Call("new", 0, <<>>, <<>>, Result("Ok", <<>>))
    /\ panicked = FALSE
    /\ ops = 0
    /\ DiskInit
    /\ ThreadInit
    /\ probe \in {[op |-> "none", a |-> a, b |-> <<>>, out |-> <<>>] :
                     a \in DecodeInputs}

\* Deserializer::next_bytes on the input
NextBytes ==
    /\ probe.op = "none"
    /\ probe' = [probe EXCEPT !.op = "next_bytes", !.out = next_bytes(probe.a)]
    /\ UNCHANGED <<mvccVars, diskVars, threadVars>>

\* MvccKey::decode of variant index 3 followed by the input
DecodeVersion ==
    /\ probe.op = "none"
    /\ probe' = [probe EXCEPT !.op = "decode", !.b = <<3>> \o probe.a,
                              !.out = decode(<<3>> \o probe.a)]
    /\ UNCHANGED <<mvccVars, diskVars, threadVars>>

\* MvccKey::decode of variant index 2, version 1, followed by the input
DecodeTxnWrite ==
    /\ probe.op = "none"
    /\ probe' = [probe EXCEPT !.op = "decode",
                              !.b = <<2>> \o serialize_u64(1) \o probe.a,
                              !.out = decode(<<2>> \o serialize_u64(1) \o probe.a)]
    /\ UNCHANGED <<mvccVars, diskVars, threadVars>>

NextDecode == NextBytes \/ DecodeVersion \/ DecodeTxnWrite

SpecDecode == InitDecode /\ [][NextDecode]_vars

RECURSIVE Escaped(_)
\* s is the escaped form of some bytes: every 0x00 in it is followed by 0xFF
Escaped(s) ==
    IF s = <<>> THEN TRUE
    ELSE IF s[1] # 0 THEN Escaped(Tail(s))
    ELSE Len(s) >= 2 /\ s[2] = 255 /\ Escaped(SubSeq(s, 3, Len(s)))

\* a 0x00 of the field is followed by a byte other than 0x00 and 0xFF
BadEscape(s) ==
    \E p \in 1..(Len(s) - 1) :
        /\ Escaped(SubSeq(s, 1, p - 1))
        /\ s[p] = 0
        /\ s[p + 1] \notin {0, 255}

\* the input ends before the 0x00 0x00 terminator: inside the field, or
\* right after a single 0x00
Unterminated(s) ==
    \/ Escaped(s)
    \/ Len(s) >= 1 /\ s[Len(s)] = 0 /\ Escaped(SubSeq(s, 1, Len(s) - 1))

(***************************************************************************)
(* C29  Bad escape is a decode error: when the bytes of a byte string      *)
(* field hold a 0x00 followed by a byte other than 0x00 and 0xFF, or end   *)
(* before the 0x00 0x00 terminator (also right after a single 0x00),       *)
(* next_bytes fails, and decode of a Version or TxnWrite key with that     *)
(* field returns the decode error: no key, and no panic.                   *)
(***************************************************************************)
C29_BadEscapeIsError ==
    (BadEscape(probe.a) \/ Unterminated(probe.a)) =>
        /\ probe.op = "next_bytes" => ~probe.out.ok
        /\ probe.op = "decode" => probe.out = DecodeErr

\* every other input holds a terminated field, which next_bytes returns
C29_TerminatedIsDecoded ==
    (probe.op = "next_bytes" /\ ~BadEscape(probe.a) /\ ~Unterminated(probe.a))
        => /\ probe.out.ok
           /\ \E n \in 0..Len(probe.a) :
                 /\ SubSeq(probe.a, 1, n) = serialize_bytes(probe.out.bytes)
                 /\ probe.out.rest = SubSeq(probe.a, n + 1, Len(probe.a))

\* the key decoder has met a 0x00 0x01 after an escaped 0x00, and has met
\* an input that ends right after a single 0x00
C29_Witness ==
    /\ probe.op = "decode"
    /\ probe.out = DecodeErr
    /\ probe.a \in {<<0, 255, 0, 1>>, <<97, 0>>}


(***************************************************************************)
(* The retry after a conflict: the run starts where a transaction A has    *)
(* written a key, a concurrent transaction T has failed to write it with   *)
(* WriteConflict and has rolled back; the writers go on from there.        *)
(***************************************************************************)
MaxRetryTxn == 4
MaxRetryOps == 5
RetryKey == <<97>>

\* the state the retry starts from: the store after T's rollback, the two
\* TransactionStates, the results of the two writes and of the rollback
RetryRolledBack(a, t, wa, wt, rb, payloadA) ==
    [data |-> rb.data,
     txns |-> <<a.result.value, t.result.value>>,
     hist |-> <<[k \in UserKeys |->
                   IF k = RetryKey
                   THEN [attempt |-> wa.result.tag, payload |-> <<payloadA>>,
                         writes |-> 1]
                   ELSE NoHistory],
                [k \in UserKeys |->
                   IF k = RetryKey
                   THEN [attempt |-> wt.result.tag, payload |-> <<>>,
                         writes |-> 0]
                   ELSE NoHistory]>>,
     result |-> rb.result]

\* T's rollback after its failed write
RetryConflicted(a, t, wa, wt, payloadA) ==
    RetryRolledBack(a, t, wa, wt, rollback(wt.data, t.result.value), payloadA)

\* T's write of the key after A's
RetryWritten(a, t, wa, payloadA, payloadT) ==
    RetryConflicted(a, t, wa,
                    write_inner(wa.data, t.result.value, RetryKey, payloadT),
                    payloadA)

\* A's write of the key after both transactions began
RetryBegunT(a, t, payloadA, payloadT) ==
    RetryWritten(a, t, write_inner(t.data, a.result.value, RetryKey, payloadA),
                 payloadA, payloadT)

\* Mvcc::begin of T after A
RetryBegunA(a, payloadA, payloadT) ==
    RetryBegunT(a, begin(a.data), payloadA, payloadT)

\* begin A, begin T, A writes the key, T writes the key, T rolls back
RetryStart(payloadA, payloadT) ==
    RetryBegunA(begin(EmptyEngine), payloadA, payloadT)

RetryStarts ==
    {RetryStart(payloadA, payloadT) :
        payloadA \in Payloads, payloadT \in Payloads}

\* the state after begin, begin, A's write, T's failed write, T's rollback
InitRetry ==
    \E s \in RetryStarts :
        /\ engine = s.data
        /\ txns = s.txns
        /\ status = <<"Active", "RolledBack">>
        /\ hist = s.hist
        /\ ended = <<{}, {}>>
        /\ last = Call("rollback", 2, <<>>, <<>>, s.result)
        /\ panicked = FALSE
        /\ ops = 0
        /\ DiskInit
        /\ probe = NoProbe
        /\ ThreadInit

NextRetry == NextWritesWithin(MaxRetryTxn, MaxRetryOps)

SpecRetry == InitRetry /\ [][NextRetry]_vars

\* the state the retry starts from is a state of the writers' runs
RetryStartReached ==
    /\ ops = 5
    /\ status = <<"Active", "RolledBack">>
    /\ ended = <<{}, {}>>
    /\ hist[2][RetryKey].attempt = "WriteConflict"
    /\ last.op = "rollback" /\ last.txn = 2 /\ last.result.tag = "Ok"
    /\ \E s \in RetryStarts :
          engine = s.data /\ txns = s.txns /\ hist = s.hist

\* the last write of key k by handle t failed with WriteConflict and t has
\* rolled back
Conflicted(t, k) ==
    hist[t][k].attempt = "WriteConflict" /\ status[t] = "RolledBack"

\* the transactions concurrent with t that have written k
Causers(t, k) ==
    {c \in Handles \ {t} : Concurrent(c, t) /\ hist[c][k].writes > 0}

\* f is a fresh transaction for the retry of t on k: active, begun after t
\* rolled back and after every causer of the conflict ended
Fresh(f, t, k) ==
    /\ f \in Live
    /\ t \in ended[f]
    /\ Causers(t, k) \subseteq ended[f]

\* f writes k successfully, whichever write it is
WritesOk(f, k) ==
    \A payload \in Payloads :
        write_inner(engine, txns[f], k, payload).result.tag = "Ok"

(***************************************************************************)
(* C30 as stated  Retry after a conflict makes progress: if T's write of   *)
(* key k failed with WriteConflict, T rolled back and the transaction that *)
(* caused the conflict has committed or rolled back, a fresh transaction   *)
(* begun afterwards writes k successfully, provided no other still-active  *)
(* transaction holds a write on k.                                         *)
(***************************************************************************)
C30_RetrySucceeds ==
    \A t \in Handles, f \in Handles, k \in UserKeys :
        (/\ Conflicted(t, k)
         /\ Fresh(f, t, k)
         /\ \A o \in Live \ {f} : ~HoldsWrite(o, k))
            => WritesOk(f, k)

(***************************************************************************)
(* C30 as amended  If T's write of key k failed with WriteConflict, T      *)
(* rolled back and the transaction that caused the conflict has committed  *)
(* or rolled back, a fresh transaction F begun afterwards writes k         *)
(* successfully, provided no transaction concurrent with F (active when F  *)
(* began, or begun after F) has written k without rolling back, whether it *)
(* is still active or has committed since.                                 *)
(***************************************************************************)
C30_RetrySucceedsUnlessConcurrentWrite ==
    \A t \in Handles, f \in Handles, k \in UserKeys :
        (/\ Conflicted(t, k)
         /\ Fresh(f, t, k)
         /\ \A o \in Handles \ {f} : Concurrent(o, f) => ~HoldsWrite(o, k))
            => WritesOk(f, k)

\* the retry has written the key: the causer committed, a fresh transaction
\* began and its set of the key has returned Ok
C30_Witness ==
    /\ last.op = "set"
    /\ last.result.tag = "Ok"
    /\ last.txn \in Live
    /\ \E t \in Handles :
          /\ Conflicted(t, last.key)
          /\ Fresh(last.txn, t, last.key)
          /\ \E c \in Causers(t, last.key) : status[c] = "Committed"


(***************************************************************************)
(* The writers on an engine whose delete can fail: transactions begin, set *)
(* keys and commit, and a commit can be stopped by an engine error at any  *)
(* of its engine.delete calls.                                             *)
(***************************************************************************)
MaxFaultOps == 5

\* the TxnWrite records of version v, as commit scans them
TxnWritesOf(data, v) ==
    {x \in DOMAIN data : decode(x) \in {TxnWriteKey(v, k) : k \in UserKeys}}

\* MvccTransaction::commit on handle t, stopped at its (n + 1)-th delete
WCommitInterrupted(maxOps, t, n) ==
    /\ n <= Cardinality(TxnWritesOf(engine, txns[t].version))
    /\ LET out == commit_interrupted(engine, txns[t], n)
       IN /\ WCalled(maxOps, "commit", t, <<>>, <<>>, out.result)
          /\ engine' = out.data
          /\ Ended(t, "Committed", out.result)
          /\ UNCHANGED <<txns, hist, ended>>

NextFaults ==
    \/ WBegin(MaxTxn, MaxFaultOps)
    \/ \E t \in Live, key \in UserKeys, value \in UserValues :
          WSet(MaxFaultOps, t, key, value)
    \/ \E t \in Live : WCommit(MaxFaultOps, t)
    \/ \E t \in Live, n \in 0..Cardinality(UserKeys) :
          WCommitInterrupted(MaxFaultOps, t, n)

SpecFaults == Init /\ [][NextFaults]_vars

\* the Version records of version v with their values
VersionsOf(data, v) ==
    {<<x, data[x]>> : x \in {y \in DOMAIN data :
                               LET r == decode(y)
                               IN r.variant = "Version" /\ r.version = v}}

\* to the transaction begun by b, version v is active and its writes are
\* invisible: its reads are those of the store without v's Version records
HiddenFromNewcomer(b, v) ==
    /\ b.result.tag = "Ok"
    /\ v \in b.result.value.active_versions
    /\ ~is_visible(b.result.value, v)
    /\ \A k \in UserKeys :
          get(b.data, b.result.value, k)
              = get(Without(b.data, v), b.result.value, k)

(***************************************************************************)
(* C31  Interrupted commit: when an engine error stops T.commit() after    *)
(* some or all of T's TxnWrite markers were deleted and before TxnActive   *)
(* is deleted, TxnActive(T.version) and all of T's Version records are     *)
(* still stored, a transaction that begins afterwards has T.version in its *)
(* active set, and T's writes are invisible to it.                         *)
(***************************************************************************)
C31_InterruptedCommit ==
    [][\A t \in Handles :
          (last'.op = "commit" /\ last'.txn = t /\ last'.result.tag = "Err")
            => /\ encode(TxnActiveKey(txns[t].version)) \in DOMAIN engine'
               /\ VersionsOf(engine', txns[t].version)
                     = VersionsOf(engine, txns[t].version)
               /\ \A k \in UserKeys :
                     hist[t][k].writes > 0 =>
                        encode(VersionKey(k, txns[t].version)) \in DOMAIN engine'
               /\ status'[t] = "Active"
               /\ HiddenFromNewcomer(begin(engine'), txns[t].version)
      ]_vars

\* a commit of a transaction that wrote two keys has been stopped after one
\* of its two TxnWrite markers was deleted; a transaction begun since has
\* it in its active set
C31_Witness ==
    \E t \in Live, f \in Live :
        /\ \A k \in UserKeys : hist[t][k].writes > 0
        /\ Cardinality(TxnWritesOf(engine, txns[t].version)) = 1
        /\ encode(TxnActiveKey(txns[t].version)) \in DOMAIN engine
        /\ last.op = "begin" /\ last.txn = f
        /\ txns[t].version \in txns[f].active_versions


\* the stored keys of the records of version v: TxnActive, TxnWrite, Version
RecordsOfVersion(data, v) ==
    {x \in DOMAIN data :
        LET r == decode(x)
        IN r.variant \in {"TxnActive", "TxnWrite", "Version"} /\ r.version = v}

(***************************************************************************)
(* C32  Statement rollback through the facade: when a statement fails in   *)
(* Session::execute its MVCC transaction is rolled back, so that after the *)
(* failed execute no TxnActive, TxnWrite or Version record of that         *)
(* transaction is stored.                                                  *)
(***************************************************************************)
C32_FailedStatementRolledBack ==
    (last.op = "execute" /\ last.result.tag # "Ok" /\ last.txn \in Handles)
        => RecordsOfVersion(engine, txns[last.txn].version) = {}


(***************************************************************************)
(* The disk engine with its reads as calls: get and scan seek and read the *)
(* log file through read_value and write nothing.                          *)
(***************************************************************************)
\* DiskEngine::get
DGet(e, key) ==
    /\ disk[e].pc = "ready"
    /\ DStep("get", e, DiskGet(e, key).tag)
    /\ UNCHANGED <<paths, files, disk, applied, dcount>>

\* DiskEngine::scan of the whole key range, collected
DScan(e) ==
    /\ disk[e].pc = "ready"
    /\ DStep("scan", e, IF DiskScanAll(e).panic THEN "Panic" ELSE "Ok")
    /\ UNCHANGED <<paths, files, disk, applied, dcount>>

NextDiskReads ==
    \/ NextDisk
    \/ \E key \in DiskKeys : DGet(1, key)
    \/ DScan(1)

SpecDiskReads == Init /\ [][NextDiskReads]_vars

\* the bytes of one record: header, key and value, no value for a tombstone
RecordOf(key, value) ==
    to_be_bytes(Len(key), 4)
        \o (IF value = None THEN <<255, 255, 255, 255>>
            ELSE to_be_bytes(Len(value[1]), 4))
        \o key
        \o (IF value = None THEN <<>> ELSE value[1])

\* every file keeps the bytes it had: its content only grows at the end
BytesKept ==
    \A f \in 1..Len(files) :
        /\ Len(files'[f].content) >= Len(files[f].content)
        /\ SubSeq(files'[f].content, 1, Len(files[f].content)) = files[f].content

\* the step appends exactly the bytes rec to the log of engine e and
\* changes no other file
Appends(e, rec) ==
    /\ Len(files') = Len(files)
    /\ \A f \in 1..Len(files) :
          files'[f].content = IF f = disk[e].fd THEN files[f].content \o rec
                              ELSE files[f].content
    /\ disk'[e].fd = disk[e].fd

(***************************************************************************)
(* C33  Append-only log: every set and every delete of the disk engine     *)
(* appends exactly one record at the end of the log file; no step changes  *)
(* a byte written earlier; get and scan do not change any file; the log of *)
(* an engine becomes another file by compaction only.                      *)
(***************************************************************************)
C33_AppendOnlyLog ==
    [][/\ BytesKept
       /\ \A e \in Engines :
             /\ \A key \in DiskKeys, value \in DiskValues :
                   DSet(e, key, value) => Appends(e, RecordOf(key, Some(value)))
             /\ \A key \in DiskKeys :
                   DDelete(e, key) => Appends(e, RecordOf(key, None))
             /\ \A key \in DiskKeys : DGet(e, key) => files' = files
             /\ DScan(e) => files' = files
             /\ (disk[e].pc = "ready" /\ disk'[e].pc = "ready"
                   /\ disk'[e].fd # disk[e].fd) => DCompactRewrite(e)
      ]_vars

\* a delete has appended its tombstone behind the record of an earlier set,
\* and a get has read the file since
C33_Witness ==
    /\ dlast.op = "get"
    /\ disk[1].pc = "ready"
    /\ dcount.writes = 2
    /\ files[disk[1].fd].content
          = RecordOf(<<97>>, Some(<<7>>)) \o RecordOf(<<97>>, None)


(***************************************************************************)
(* C34  Compaction starts from a fresh file: the log a successful compact  *)
(* leaves holds only the records copied from the current index, whatever   *)
(* file exists at the sibling path: the log and the keydir are those of a  *)
(* rewrite into an empty file, and a later open replays that keydir.       *)
(***************************************************************************)
C34_CompactionFromFreshFile ==
    [][\A e \in Engines :
          (DCompactRewrite(e) /\ dlast'.result = "Ok")
            => /\ files'[disk'[e].fd].content
                     = compact_rewrite(SortedKeys(DOMAIN disk[e].keydir),
                                       disk[e].keydir, files[disk[e].fd].content,
                                       EmptyEngine, <<>>).content
               /\ build_keydir(files'[disk'[e].fd].content)
                     = [tag |-> "Ok", keydir |-> disk'[e].keydir]
      ]_vars


(***************************************************************************)
(* The writers late in the life of a store: 253 or 254 transactions have   *)
(* begun and committed without a write, which leaves the NextVersion       *)
(* record alone in the store, holding 254 or 255.                          *)
(***************************************************************************)
MaxHighOps == 5
HighVersions == {254, 255}

InitHighVersion ==
    /\ engine \in {[x \in {encode(NextVersionKey)} |-> bincode_serialize_u64(v)] :
                      v \in HighVersions}
    /\ txns = <<>>
    /\ status = <<>>
    /\ hist = <<>>
    /\ ended = <<>>
    /\ last = Call("new", 0, <<>>, <<>>, Result("Ok", <<>>))
    /\ panicked = FALSE
    /\ ops = 0
    /\ DiskInit
    /\ probe = NoProbe
    /\ ThreadInit

NextHighVersion == NextWritesWithin(MaxTxn, MaxHighOps)

SpecHighVersion == InitHighVersion /\ [][NextHighVersion]_vars

\* a begin and a commit without a write between them leave the store with
\* the NextVersion record alone, one higher than before
BeginCommitLeavesNextVersion ==
    (/\ Len(txns) = 2
     /\ status = <<"Committed", "Committed">>
     /\ \A t \in Handles, k \in UserKeys : hist[t][k].attempt = "none"
     /\ ended = <<{}, {1}>>)
        => engine = [x \in {encode(NextVersionKey)} |-> bincode_serialize_u64(3)]

(***************************************************************************)
(* C35  Commit and rollback work for every version: T.commit() and         *)
(* T.rollback() return Ok, without a panic, and leave no TxnWrite marker   *)
(* of T, also when the least significant byte of T.version is 0xFF.        *)
(***************************************************************************)
C35_CommitRollbackEveryVersion ==
    (last.op \in {"commit", "rollback"} /\ last.txn \in Handles)
        => /\ last.result.tag = "Ok"
           /\ TxnWritesOf(engine, txns[last.txn].version) = {}

\* commit and rollback of the versions whose last byte is not 0xFF
C35_CommitRollbackBelowFF ==
    (/\ last.op \in {"commit", "rollback"}
     /\ last.txn \in Handles
     /\ txns[last.txn].version % 256 # 255)
        => /\ last.result.tag = "Ok"
           /\ TxnWritesOf(engine, txns[last.txn].version) = {}


\* the active transactions that own a Version record of key k: the versions
\* with a TxnActive marker and a Version(k, version) record in the store
ActiveOwners(data, k) ==
    {v \in {decode(x).version :
               x \in {y \in DOMAIN data : decode(y).variant = "TxnActive"}} :
        encode(VersionKey(k, v)) \in DOMAIN data}

(***************************************************************************)
(* C36  Single uncommitted writer per key: in every state, for every key k *)
(* at most one transaction with a TxnActive marker owns a Version record   *)
(* of k; and two concurrent transactions that have both committed have     *)
(* written no key in common.                                               *)
(***************************************************************************)
C36_SingleUncommittedWriter ==
    /\ \A k \in ProbeKeys : Cardinality(ActiveOwners(engine, k)) <= 1
    /\ \A a \in Handles, b \in Handles :
          (Concurrent(a, b) /\ status[a] = "Committed" /\ status[b] = "Committed")
            => \A k \in UserKeys : ~(hist[a][k].writes > 0 /\ hist[b][k].writes > 0)

\* two concurrent transactions have both committed; one wrote the key, the
\* other's write of it failed with WriteConflict
C36_Witness ==
    \E a \in Handles, b \in Handles, k \in UserKeys :
        /\ Concurrent(a, b)
        /\ status[a] = "Committed" /\ status[b] = "Committed"
        /\ hist[a][k].writes > 0
        /\ hist[b][k].attempt = "WriteConflict"
        /\ ActiveOwners(engine, k) = {}


(***************************************************************************)
(* The calls of the transactions on the two user keys, reads included,     *)
(* with a bound of their own on the length of a run.                       *)
(***************************************************************************)
MaxRecordOps == 6
MaxRecordTxn == 2

\* MvccTransaction::get on handle t
WGet(maxOps, t, key) ==
    /\ WCalled(maxOps, "get", t, key, <<>>, get(engine, txns[t], key))
    /\ UNCHANGED <<engine, txns, status, hist, ended>>

\* MvccTransaction::scan_prefix on handle t
WScanPrefix(maxOps, t, prefix) ==
    /\ WCalled(maxOps, "scan_prefix", t, prefix, <<>>,
               scan_prefix(engine, txns[t], prefix))
    /\ UNCHANGED <<engine, txns, status, hist, ended>>

NextRecords ==
    \/ WBegin(MaxRecordTxn, MaxRecordOps)
    \/ \E t \in Live, key \in UserKeys, value \in UserValues :
          WSet(MaxRecordOps, t, key, value)
    \/ \E t \in Live, key \in UserKeys : WDelete(MaxRecordOps, t, key)
    \/ \E t \in Live, key \in UserKeys : WGet(MaxRecordOps, t, key)
    \/ \E t \in Live, prefix \in UserPrefixes : WScanPrefix(MaxRecordOps, t, prefix)
    \/ \E t \in Live : WCommit(MaxRecordOps, t)
    \/ \E t \in Live : WRollback(MaxRecordOps, t)

SpecRecords == Init /\ [][NextRecords]_vars

\* what handle t reads and what its writes would return, on every key
BehaviourOf(data, state) ==
    [k \in ProbeKeys |->
        <<get(data, state, k),
          write_inner(data, state, k, None).result,
          write_inner(data, state, k, Some(<<7>>)).result>>]

(***************************************************************************)
(* C37  A failed write changes nothing: when set or delete of handle T     *)
(* returns WriteConflict, the store after the call is the store before it  *)
(* (no TxnWrite or Version record added or changed), T is still active     *)
(* with the state it had, and what T reads and what its writes return on   *)
(* every key is what it was before the call.                               *)
(***************************************************************************)
C37_FailedWriteChangesNothing ==
    [][(/\ last'.op \in {"set", "delete"}
        /\ last'.result.tag = "WriteConflict"
        /\ ops' = ops + 1)
          => /\ engine' = engine
             /\ txns' = txns
             /\ status' = status
             /\ status[last'.txn] = "Active"
             /\ \A k \in UserKeys :
                   /\ hist'[last'.txn][k].payload = hist[last'.txn][k].payload
                   /\ hist'[last'.txn][k].writes = hist[last'.txn][k].writes
             /\ BehaviourOf(engine', txns'[last'.txn])
                  = BehaviourOf(engine, txns[last'.txn])]_vars

\* a write of T failed with WriteConflict while T held a write of another
\* key, whose records are still in the store
C37_Witness ==
    /\ last.op \in {"set", "delete"}
    /\ last.result.tag = "WriteConflict"
    /\ \E k \in UserKeys \ {last.key} :
          /\ hist[last.txn][k].writes > 0
          /\ encode(VersionKey(k, txns[last.txn].version)) \in DOMAIN engine
          /\ encode(TxnWriteKey(txns[last.txn].version, k)) \in DOMAIN engine
    /\ encode(TxnWriteKey(txns[last.txn].version, last.key)) \notin DOMAIN engine
    /\ status[last.txn] = "Active"


\* the pairs of key k in what scan_prefix returned, none when it failed
ScannedOf(res, k) ==
    IF res.tag # "Ok" THEN {}
    ELSE {res.value[i] : i \in {j \in 1..Len(res.value) : res.value[j][1] = k}}

\* the pair of key k that get returned, none for Ok(None) or a failure
GotOf(res, k) ==
    IF res.tag = "Ok" /\ res.value # None THEN {<<k, res.value[1]>>} ELSE {}

\* scan_prefix(p) and get agree on the keys of ProbeKeys that start with p
ScanAgreesWithGet(t, p) ==
    LET res == scan_prefix(engine, txns[t], p)
    IN \A k \in ProbeKeys :
          IsPrefix(p, k) => ScannedOf(res, k) = GotOf(get(engine, txns[t], k), k)

(***************************************************************************)
(* C38  scan_prefix agrees with get: in every reachable state, for every   *)
(* transaction T, every prefix p whose last byte is not 0xFF and every key *)
(* k that starts with p, the pair (k, v) is in T.scan_prefix(p) if and     *)
(* only if T.get(k) returns v.                                             *)
(***************************************************************************)
C38_ScanAgreesWithGet ==
    \A t \in Handles, p \in ProbePrefixes :
        (p = <<>> \/ p[Len(p)] # 255) => ScanAgreesWithGet(t, p)

\* the same for the prefixes that end neither in 0xFF nor in 0x00
C38_ScanAgreesWithGetNonZero ==
    \A t \in Handles, p \in ProbePrefixes :
        (p = <<>> \/ p[Len(p)] \notin {0, 255}) => ScanAgreesWithGet(t, p)

\* a transaction reads a value of a key through get and through the scan
\* of a prefix, while another key of the prefix has a record it cannot see
C38_NonZeroReached ==
    \E t \in Handles, k \in UserKeys, j \in UserKeys :
        /\ j # k
        /\ GotOf(get(engine, txns[t], k), k) # {}
        /\ ScannedOf(scan_prefix(engine, txns[t], <<97>>), k) # {}
        /\ GotOf(get(engine, txns[t], j), j) = {}
        /\ \E u \in Handles \ {t} :
              encode(VersionKey(j, txns[u].version)) \in DOMAIN engine


\* after is before without some of its records, none added and none changed
OnlyDeletes(before, after) ==
    /\ DOMAIN after \subseteq DOMAIN before
    /\ \A x \in DOMAIN after : after[x] = before[x]

\* the stored key x, decoded as r, is a TxnWrite or TxnActive record of
\* version v
OwnMarker(r, v) ==
    /\ r.variant \in {"TxnWrite", "TxnActive"}
    /\ r.version = v

\* r is the Version record at version v of a key that has a TxnWrite record
\* of version v in the store
OwnWrite(data, r, v) ==
    /\ r.variant = "Version"
    /\ r.version = v
    /\ encode(TxnWriteKey(v, r.key)) \in DOMAIN data

\* the frame of a call of handle t that took the store from before to after
CallFrame(op, before, after, keys, v) ==
    IF op \in {"get", "scan_prefix"} THEN after = before
    ELSE /\ OnlyDeletes(before, after)
         /\ \A x \in DOMAIN before \ DOMAIN after :
               \/ OwnMarker(keys[x], v)
               \/ op = "rollback" /\ OwnWrite(before, keys[x], v)

(***************************************************************************)
(* C39  Commit and rollback touch only the transaction's own records:      *)
(* commit of T removes TxnWrite and TxnActive records of T's version and   *)
(* nothing else; rollback of T removes those and the Version records at    *)
(* T's version of the keys T wrote, and nothing else; neither adds or      *)
(* changes a record, so NextVersion and the records of every other version *)
(* stay as they are; get and scan_prefix leave the store as it is.         *)
(***************************************************************************)
C39_OwnRecordsOnly ==
    [][(/\ ops' = ops + 1
        /\ last'.op \in {"commit", "rollback", "get", "scan_prefix"})
          => CallFrame(last'.op, engine, engine', Decoded(engine),
                       txns[last'.txn].version)]_vars

\* a transaction that had written has rolled back and none of its records
\* is left, while the three records of another transaction's write and the
\* NextVersion record are in the store
C39_Witness ==
    /\ last.op = "rollback"
    /\ last.result.tag = "Ok"
    /\ \E k \in UserKeys : hist[last.txn][k].writes > 0
    /\ RecordsOfVersion(engine, txns[last.txn].version) = {}
    /\ \E u \in Handles \ {last.txn} :
          Cardinality(RecordsOfVersion(engine, txns[u].version)) = 3
    /\ encode(NextVersionKey) \in DOMAIN engine


\* the TxnActive record of version v and its TxnWrite and Version records
\* of key k are in the store
WriteHeld(data, v, k) ==
    /\ encode(TxnActiveKey(v)) \in DOMAIN data
    /\ encode(TxnWriteKey(v, k)) \in DOMAIN data
    /\ encode(VersionKey(k, v)) \in DOMAIN data

\* in the store data the transaction of state cannot see version v, reads
\* key k as if v had not written it, and can neither set nor delete k
BlockedBy(data, state, v, k) ==
    /\ ~is_visible(state, v)
    /\ get(data, state, k) = get(Without(data, v), state, k)
    /\ write_inner(data, state, k, None).result.tag = "WriteConflict"
    /\ \A value \in UserValues :
          write_inner(data, state, k, Some(value)).result.tag = "WriteConflict"

\* the same for the transaction that begin would return now
NewcomerBlockedBy(b, v, k) ==
    /\ b.result.tag = "Ok"
    /\ BlockedBy(b.data, b.result.value, v, k)

\* the handles that have written key k and have neither committed nor
\* rolled back: an abandoned transaction is one of these, for ever
Holders(k) == {w \in Live : hist[w][k].writes > 0}

\* while w holds its write of k: its records are stored, no other handle
\* sees the write, and no transaction begun after w can write k
HolderBlocks(w, k) ==
    /\ WriteHeld(engine, txns[w].version, k)
    /\ \A t \in Handles \ {w} :
          /\ ~is_visible(txns[t], txns[w].version)
          /\ get(engine, txns[t], k)
                = get(Without(engine, txns[w].version), txns[t], k)
          /\ txns[t].version > txns[w].version
                => BlockedBy(engine, txns[t], txns[w].version, k)
    /\ NewcomerBlockedBy(begin(engine), txns[w].version, k)

\* a call of another handle leaves the records of w as they are and w
\* uncommitted
HolderKept(w, k) ==
    (last'.txn # w /\ ops' = ops + 1)
        => /\ w \in Live'
           /\ \A x \in RecordsOfVersion(engine, txns[w].version) :
                 x \in DOMAIN engine' /\ engine'[x] = engine[x]

(***************************************************************************)
(* C40  An abandoned transaction blocks its keys for ever: once W has      *)
(* written key k, as long as neither commit nor rollback is called on W    *)
(* (W dropped, which runs no code) every call of another transaction       *)
(* leaves W's TxnActive, TxnWrite and Version records in the store, no     *)
(* other transaction sees W's write of k, and every set or delete of k by  *)
(* a transaction that began after W, or that begins now, returns           *)
(* WriteConflict.                                                          *)
(***************************************************************************)
C40_AbandonedBlocksForEver ==
    /\ [](\A k \in WriteKeys : \A w \in Holders(k) : HolderBlocks(w, k))
    /\ [][\A k \in WriteKeys : \A w \in Holders(k) : HolderKept(w, k)]_vars

\* W holds a write of k and took no further call; a transaction begun
\* later failed to write k and ended, and one begun after that failed too
C40_Witness ==
    \E w \in Live, t \in Handles, u \in Live, k \in WriteKeys :
        /\ w \in Holders(k)
        /\ txns[w].version < txns[t].version
        /\ txns[t].version < txns[u].version
        /\ status[t] \in {"Committed", "RolledBack"}
        /\ hist[t][k].attempt = "WriteConflict"
        /\ hist[u][k].attempt = "WriteConflict"
        /\ last.txn = u
        /\ WriteHeld(engine, txns[w].version, k)

====
